---- MODULE Spec2Model ----
(***************************************************************************)
(* A model of lalib: the GF2 elements `one` and `zero` of                  *)
(* src/lalib/elements/gf2.py, their constructor, casting, comparison and   *)
(* arithmetic, and the fields Q, R, C and GF2 of src/lalib/fields with     *)
(* their methods cast, validate, is_zero, is_one and random.               *)
(*                                                                         *)
(* Two further state machines share the variables.  FieldsSpec follows     *)
(* the field classes as singletons (src/lalib/fields/utils.py): the import *)
(* of lalib.fields creates the instances, and client threads call the      *)
(* classes again, each call split at its check of the stored instance.     *)
(* DomainsSpec follows src/lalib/domains.py: the construction of a Domain  *)
(* from a number or from labels, and readers of the cached property        *)
(* is_canonical, each read split at its look-up of the cache.              *)
(*                                                                         *)
(* Numbers.  A Python float is modelled as an exact real of the form       *)
(*     w + e / Unit                                                        *)
(* (a record of kind "fin" with the whole part w and the offset e), or as  *)
(* NaN, or as +/- infinity.  One offset is a tenth of THRESHOLD.  The      *)
(* elements of GF2 only compare floats, for which the size of an offset    *)
(* does not matter (10^-13 in lalib).  The fields compute with them: there *)
(* THRESHOLD is 10^-NDIGITS and MAX_DENOMINATOR is 10^NDIGITS as in        *)
(* lalib.config, but with NDIGITS = 2 in place of 12, which keeps the      *)
(* integers of the model small, and a float holds NDIGITS + 1 decimal      *)
(* digits.  The offsets of the inputs stay below Unit / 2, so that the     *)
(* order of two such numbers is the lexicographic order of (w, e).         *)
(* Rounding of the floating-point subtraction in the casts and in the      *)
(* identity checks is not modelled.                                        *)
(***************************************************************************)
EXTENDS Integers, Sequences, FiniteSets, TLC

VARIABLES
    pc,          \* position of the module initialisation / "ready"
    heap,        \* the GF2 objects allocated so far: heap[ref] is the class
    _instances,  \* GF2._instances: resolved int value -> ref
    one,         \* the module-level name `one`  (0: not yet bound)
    zero,        \* the module-level name `zero` (0: not yet bound)
    last,        \* the last call made by client code, with its outcome
    _instance,   \* the attribute _instance of each field class (0: not set)
    objects,     \* the field objects allocated so far: objects[ref] is the class
    names,       \* the module-level names Q, R, C and GF2 (0: not yet bound)
    threads,     \* the threads that construct fields: position and locals
    domains,     \* the Domain objects: labels and the _is_canonical attribute
    made,        \* the last call of Domain(labels), with its outcome
    readers      \* the threads that read is_canonical: position and locals

elementVars == <<pc, heap, _instances, one, zero, last>>

fieldVars == <<_instance, objects, names, threads>>

domainVars == <<domains, made, readers>>

vars == <<pc, heap, _instances, one, zero, last, _instance, objects, names,
          threads, domains, made, readers>>

---------------------------------------------------------------------------
(* Bounds of the model *)

MaxWhole == 1        \* whole parts of the inputs range over -MaxWhole..MaxWhole
MaxObjects == 4      \* no call is started once the heap holds this many objects
Scaler == 10         \* the larger small threshold is Scaler * THRESHOLD
BigThreshold == 2    \* a threshold that is no longer small against 1
NDIGITS == 2         \* decimal digits the fields compute with (see below)
Draws == 2           \* random.uniform draws one of Draws + 1 spaced numbers

---------------------------------------------------------------------------
(* Floats *)

Fin(w, e) == [k |-> "fin", w |-> w, e |-> e]
NaN == [k |-> "nan", w |-> 0, e |-> 0]
Inf(sign) == [k |-> "inf", w |-> sign, e |-> 0]

IsNaN(x) == x.k = "nan"

IsNegative(x) == x.k # "nan" /\ (x.w < 0 \/ (x.w = 0 /\ x.e < 0))

Abs(x) == IF IsNegative(x) THEN [x EXCEPT !.w = -x.w, !.e = -x.e] ELSE x

Minus(x, y) ==
    CASE x.k = "nan" \/ y.k = "nan" -> NaN
      [] x.k = "inf" /\ y.k = "inf" -> IF x.w = y.w THEN NaN ELSE x
      [] x.k = "inf" -> x
      [] y.k = "inf" -> Inf(-y.w)
      [] OTHER -> Fin(x.w - y.w, x.e - y.e)

\* x < y on floats; every comparison with NaN is False
Less(x, y) ==
    CASE x.k = "nan" \/ y.k = "nan" -> FALSE
      [] x.k = "inf" -> x.w = -1 /\ ~(y.k = "inf" /\ y.w = -1)
      [] y.k = "inf" -> y.w = 1
      [] OTHER -> x.w < y.w \/ (x.w = y.w /\ x.e < y.e)

\* Offsets per threshold: THRESHOLD is TenthsPerThreshold * 10^-13 = 10^-12
TenthsPerThreshold == 10
THRESHOLD == Fin(0, TenthsPerThreshold)

---------------------------------------------------------------------------
(* Results of calls: an int, an object reference, a bool, an exception or  *)
(* the NotImplemented marker of the operator protocol                      *)

IntRes(n) == [k |-> "int", v |-> n, exc |-> "", msg |-> ""]
ObjRes(ref) == [k |-> "obj", v |-> ref, exc |-> "", msg |-> ""]
BoolRes(b) == [k |-> "bool", v |-> IF b THEN 1 ELSE 0, exc |-> "", msg |-> ""]
Raise(exc, msg) == [k |-> "exc", v |-> 0, exc |-> exc, msg |-> msg]
NotImplemented == [k |-> "notimpl", v |-> 0, exc |-> "", msg |-> ""]
NoRes == [k |-> "none", v |-> 0, exc |-> "", msg |-> ""]

\* the messages of the exceptions (without their backquotes)
MsgNumber == "value must be a number"
MsgLike == "value must be either 1-like or 0-like"
MsgInternal == "Must create one and zero first (internal error)"
MsgOtherLike == "other must be a 1-like or 0-like value"
MsgDivision == "division by 0-like value"
MsgOverflow == "int too large to convert to float"
MsgUnsupported == "unsupported operand type(s)"

---------------------------------------------------------------------------
(* Python values handed to the library *)

Zero0 == Fin(0, 0)

\* an int, a float or a complex number (also a Decimal, a Fraction)
Num(re, im) == [k |-> "num", re |-> re, im |-> im, s |-> "", ref |-> 0]
Whole(n) == Num(Fin(n, 0), Zero0)
Str(s) == [k |-> "str", re |-> Zero0, im |-> Zero0, s |-> s, ref |-> 0]
Tuple == [k |-> "tuple", re |-> Zero0, im |-> Zero0, s |-> "", ref |-> 0]
None == [k |-> "none", re |-> Zero0, im |-> Zero0, s |-> "", ref |-> 0]
\* an int beyond the range of a float, such as 10**400
HugeInt == [k |-> "hugeint", re |-> Zero0, im |-> Zero0, s |-> "", ref |-> 0]
\* a reference to a GF2 object
Elem(ref) == [k |-> "elem", re |-> Zero0, im |-> Zero0, s |-> "", ref |-> ref]

\* class attribute `_value`: GF2One._value = 1, GF2Zero._value = 0,
\* the base class GF2 only annotates it
HasValue(cls) == cls \in {"GF2One", "GF2Zero"}
ClassValue(cls) == IF cls = "GF2One" THEN 1 ELSE 0

\* int(obj), i.e. obj._value, of an allocated object
IntOf(h, ref) == ClassValue(h[ref])

\* complex("...") on the strings of the model
ParseComplex(s) ==
    CASE s = "1" -> [exc |-> "", re |-> Fin(1, 0), im |-> Zero0]
      [] s = "0.0" -> [exc |-> "", re |-> Zero0, im |-> Zero0]
      [] s = "42" -> [exc |-> "", re |-> Fin(42, 0), im |-> Zero0]
      [] s = "-inf" -> [exc |-> "", re |-> Inf(-1), im |-> Zero0]
      [] OTHER -> [exc |-> "ValueError", re |-> Zero0, im |-> Zero0]

\* complex(value)
ToComplex(value, h) ==
    CASE value.k = "num" -> [exc |-> "", re |-> value.re, im |-> value.im]
      [] value.k = "str" -> ParseComplex(value.s)
      [] value.k = "elem" ->
            [exc |-> "", re |-> Fin(IntOf(h, value.ref), 0), im |-> Zero0]
      [] value.k = "hugeint" ->
            [exc |-> "OverflowError", re |-> Zero0, im |-> Zero0]
      [] OTHER -> [exc |-> "TypeError", re |-> Zero0, im |-> Zero0]

\* mutant: an imaginary part equal to the threshold is accepted
ImagWithinInclusive(im, threshold) == ~Less(threshold, Abs(im))

\* `abs(value.imag) < threshold`
ImagWithin(im, threshold) == Less(Abs(im), threshold)

\* mutant: the distance to 1 is taken without abs
OneLikeNoAbs(re, threshold) == Less(Minus(re, Fin(1, 0)), threshold)

\* `abs(value - 1) < threshold`
OneLike(re, threshold) == Less(Abs(Minus(re, Fin(1, 0))), threshold)

\* mutant: the distance to 0 is taken without abs
ZeroLikeNoAbs(re, threshold) == Less(re, threshold)

\* `abs(value) < threshold`
ZeroLike(re, threshold) == Less(Abs(re), threshold)

\* mutant: the relaxed mode gives 1 for every number
CastComplexAllOnes(c, strict, threshold) ==
    IF c.exc \in {"TypeError", "ValueError"} THEN Raise("TypeError", MsgNumber)
    ELSE IF c.exc # "" THEN Raise(c.exc, MsgOverflow)
    ELSE IF ~ImagWithin(c.im, threshold) THEN Raise("ValueError", MsgLike)
    ELSE IF IsNaN(c.re) THEN Raise("ValueError", MsgLike)
    ELSE IF strict
         THEN IF OneLike(c.re, threshold) THEN IntRes(1)
              ELSE IF ZeroLike(c.re, threshold) THEN IntRes(0)
              ELSE Raise("ValueError", MsgLike)
    ELSE IntRes(1)

\* the body of to_gf2 after `value = complex(value)`, whose outcome is c
CastComplex(c, strict, threshold) ==
    IF c.exc \in {"TypeError", "ValueError"} THEN Raise("TypeError", MsgNumber)
    ELSE IF c.exc # "" THEN Raise(c.exc, MsgOverflow)
    ELSE IF ~ImagWithin(c.im, threshold) THEN Raise("ValueError", MsgLike)
    ELSE IF IsNaN(c.re) THEN Raise("ValueError", MsgLike)
    ELSE IF strict
         THEN IF OneLike(c.re, threshold) THEN IntRes(1)
              ELSE IF ZeroLike(c.re, threshold) THEN IntRes(0)
              ELSE Raise("ValueError", MsgLike)
    ELSE IF ZeroLike(c.re, threshold) THEN IntRes(0)
    ELSE IntRes(1)

\* to_gf2(value, strict=..., threshold=...)
to_gf2(value, strict, threshold, h) ==
    CastComplex(ToComplex(value, h), strict, threshold)

---------------------------------------------------------------------------
(* GF2.__new__ *)

\* mutant: casting is relaxed by default
DefaultStrictOff == FALSE

\* the defaults of the keyword arguments `strict` and `threshold`
DefaultStrict == TRUE

DefaultThreshold == THRESHOLD

\* outcome of a call that may allocate: the result and the new heap/registry
Outcome(res, h, inst) == [res |-> res, heap |-> h, inst |-> inst]

\* isinstance(value, cls)
IsInstance(value, cls, h) ==
    value.k = "elem" /\ (cls = "GF2" \/ h[value.ref] = cls)

\* mutant: the lookup in the registry always misses
HasInstanceNever(inst, value) == FALSE

\* `cls._instances[value]` does not raise KeyError
HasInstance(inst, value) == value \in DOMAIN inst

\* `cls._instances[int(obj)] = obj`
SetInstance(inst, key, ref) ==
    [n \in DOMAIN inst \cup {key} |-> IF n = key THEN ref ELSE inst[n]]

\* mutant: the base class falls back to the registered one
DefaultValueOne(cls, inst) ==
    IF HasValue(cls) THEN IntRes(ClassValue(cls))
    ELSE IF HasInstance(inst, 1) THEN ObjRes(inst[1])
    ELSE Raise("RuntimeError", MsgInternal)

\* the branch `value is None`: the class's own `_value`, the registered
\* zero for the base class, or the internal error
DefaultValue(cls, inst) ==
    IF HasValue(cls) THEN IntRes(ClassValue(cls))
    ELSE IF HasInstance(inst, 0) THEN ObjRes(inst[0])
    ELSE Raise("RuntimeError", MsgInternal)

\* the end of __new__: `obj = super().__new__(cls)`, registered under
\* int(obj), which the base class cannot give
Allocate(cls, h, inst) ==
    IF HasValue(cls)
    THEN Outcome(ObjRes(Len(h) + 1), Append(h, cls),
                 SetInstance(inst, ClassValue(cls), Len(h) + 1))
    ELSE Outcome(Raise("AttributeError", "_value"), Append(h, cls), inst)

\* __new__ from the resolved value r on: an early return or an exception,
\* the registered object, or a new object
Lookup(cls, r, h, inst) ==
    IF r.k # "int" THEN Outcome(r, h, inst)
    ELSE IF HasInstance(inst, r.v) THEN Outcome(ObjRes(inst[r.v]), h, inst)
    ELSE Allocate(cls, h, inst)

\* cls(value, strict=..., threshold=...)
New(cls, value, strict, threshold, h, inst) ==
    IF IsInstance(value, cls, h) THEN Outcome(ObjRes(value.ref), h, inst)
    ELSE Lookup(cls,
                IF value.k = "none" THEN DefaultValue(cls, inst)
                ELSE to_gf2(value, strict, threshold, h),
                h, inst)

---------------------------------------------------------------------------
(* Arithmetic *)

RECURSIVE Power(_, _)
Power(b, n) == IF n = 0 THEN 1 ELSE b * Power(b, n - 1)

\* the lambdas handed to `_compute`, on the ints s = int(self) and
\* o = int(other), both 1 or 0; the quotient of `/` is a float with an
\* integral value
\* mutant: the sum is not reduced modulo 2
AddFuncNoModulo(s, o) == IntRes(s + o)

AddFunc(s, o) == IntRes((s + o) % 2)

\* mutant: the product is computed as the sum
MulFuncAsAdd(s, o) == IntRes((s + o) % 2)

MulFunc(s, o) == IntRes(s * o)

\* mutant: the quotient by zero is zero
TrueDivFuncNoError(s, o) == IntRes(IF o = 0 THEN 0 ELSE s \div o)

TrueDivFunc(s, o) ==
    IF o = 0 THEN Raise("ZeroDivisionError", "division by zero")
    ELSE IntRes(s \div o)

\* mutant: the reflected division does not swap its operands
RTrueDivFuncNotSwapped(s, o) ==
    IF o = 0 THEN Raise("ZeroDivisionError", "division by zero")
    ELSE IntRes(s \div o)

RTrueDivFunc(s, o) ==
    IF s = 0 THEN Raise("ZeroDivisionError", "division by zero")
    ELSE IntRes(o \div s)

ModFunc(s, o) ==
    IF o = 0 THEN Raise("ZeroDivisionError", "modulo by zero")
    ELSE IntRes(s % o)

RModFunc(s, o) ==
    IF s = 0 THEN Raise("ZeroDivisionError", "modulo by zero")
    ELSE IntRes(o % s)

PowFunc(s, o) == IntRes(Power(s, o))

RPowFunc(s, o) == IntRes(Power(o, s))

Func(f, s, o) ==
    CASE f = "add" -> AddFunc(s, o)
      [] f = "mul" -> MulFunc(s, o)
      [] f = "truediv" -> TrueDivFunc(s, o)
      [] f = "rtruediv" -> RTrueDivFunc(s, o)
      [] f = "mod" -> ModFunc(s, o)
      [] f = "rmod" -> RModFunc(s, o)
      [] f = "pow" -> PowFunc(s, o)
      [] f = "rpow" -> RPowFunc(s, o)

\* the end of _compute: r is the outcome of func, c that of GF2(other)
Wrap(self, r, c) ==
    IF r.k = "exc"
    THEN Outcome(Raise("ZeroDivisionError", MsgDivision), c.heap, c.inst)
    ELSE New(c.heap[self], Whole(r.v), DefaultStrict, DefaultThreshold,
             c.heap, c.inst)

\* _compute after `other = GF2(other)`, whose outcome is c
Computed(self, f, c) ==
    IF c.res.k = "exc"
    THEN IF c.res.exc = "TypeError" THEN Outcome(NotImplemented, c.heap, c.inst)
         ELSE IF c.res.exc = "ValueError"
              THEN Outcome(Raise("ValueError", MsgOtherLike), c.heap, c.inst)
         ELSE c
    ELSE Wrap(self, Func(f, IntOf(c.heap, self), IntOf(c.heap, c.res.v)), c)

\* self._compute(other, func)
_compute(self, other, f, h, inst) ==
    Computed(self, f, New("GF2", other, DefaultStrict, DefaultThreshold, h, inst))

\* the function behind each special method: __radd__, __sub__ and __rsub__
\* are __add__, __rmul__ is __mul__, __floordiv__ is __truediv__ and
\* __rfloordiv__ is __rtruediv__
FuncOf(method) ==
    CASE method \in {"__add__", "__radd__", "__sub__", "__rsub__"} -> "add"
      [] method \in {"__mul__", "__rmul__"} -> "mul"
      [] method \in {"__truediv__", "__floordiv__"} -> "truediv"
      [] method \in {"__rtruediv__", "__rfloordiv__"} -> "rtruediv"
      [] method = "__mod__" -> "mod"
      [] method = "__rmod__" -> "rmod"
      [] method = "__pow__" -> "pow"
      [] method = "__rpow__" -> "rpow"

Operators == {"+", "-", "*", "/", "//", "%", "**"}

Forward(op) ==
    CASE op = "+" -> "__add__" [] op = "-" -> "__sub__"
      [] op = "*" -> "__mul__" [] op = "/" -> "__truediv__"
      [] op = "//" -> "__floordiv__" [] op = "%" -> "__mod__"
      [] op = "**" -> "__pow__"

Reflected(op) ==
    CASE op = "+" -> "__radd__" [] op = "-" -> "__rsub__"
      [] op = "*" -> "__rmul__" [] op = "/" -> "__rtruediv__"
      [] op = "//" -> "__rfloordiv__" [] op = "%" -> "__rmod__"
      [] op = "**" -> "__rpow__"

\* the end of `left op right`: NotImplemented ends in TypeError
Dispatched(r) ==
    IF r.res.k = "notimpl"
    THEN Outcome(Raise("TypeError", MsgUnsupported), r.heap, r.inst)
    ELSE r

\* `left op right` with a GF2 element on at least one side.  The element's
\* method is called with the other operand (the forward method of the left
\* element, else the reflected method of the right element); the other
\* operand's own type (a number, a string, a tuple, None) does not know GF2
\* and declines, so that NotImplemented from the element's method ends in
\* TypeError.  With a string on the left, `%` is string formatting and fails
\* by itself.
BinaryOp(op, left, right, h, inst) ==
    IF left.k = "str" /\ op = "%"
    THEN Outcome(Raise("TypeError", "not all arguments converted"), h, inst)
    ELSE Dispatched(_compute(IF left.k = "elem" THEN left.ref ELSE right.ref,
                             IF left.k = "elem" THEN right ELSE left,
                             FuncOf(IF left.k = "elem" THEN Forward(op)
                                    ELSE Reflected(op)),
                             h, inst))

\* +self, -self, abs(self), self.conjugate()
UnaryOps == {"__pos__", "__neg__", "__abs__", "conjugate"}
UnaryOp(op, self) == ObjRes(self)

\* mutant: the hash that an object has by default, taken from its identity
HashOfIdentity(self, h) == IntRes(self)

\* `__hash__ = __int__`: int(self._value)
__hash__(self, h) == IntRes(IntOf(h, self))

\* hash(n) of a native number n: the value itself when it is a whole number
\* (hash(-1) is -2; 1, 1.0, True and 1+0j all hash to 1), otherwise a number
\* of up to 61 bits computed from the mantissa and the exponent, which is
\* not the hash of a whole number of the model and is kept as a symbol
HashOf(v) ==
    IF v.im = Zero0 /\ v.re.k = "fin" /\ v.re.e = 0
    THEN IntRes(IF v.re.w = -1 THEN -2 ELSE v.re.w)
    ELSE [k |-> "hash", re |-> v.re, im |-> v.im]

---------------------------------------------------------------------------
(* Comparison *)

\* mutant: no exception of GF2(other) is swallowed
ComparedRaising(self, c) ==
    IF c.res.k = "exc" THEN c
    ELSE Outcome(BoolRes(self = c.res.v), c.heap, c.inst)

\* __eq__ after `other = GF2(other)`, whose outcome is c
Compared(self, c) ==
    IF c.res.k = "exc"
    THEN IF c.res.exc \in {"TypeError", "ValueError"}
         THEN Outcome(BoolRes(FALSE), c.heap, c.inst)
         ELSE c
    ELSE Outcome(BoolRes(self = c.res.v), c.heap, c.inst)

\* self.__eq__(other)
__eq__(self, other, h, inst) ==
    Compared(self, New("GF2", other, DefaultStrict, DefaultThreshold, h, inst))

\* `left == right` with a GF2 element on at least one side: the element on
\* the left decides; otherwise the left operand's type declines the
\* comparison and the element on the right decides
Equals(left, right, h, inst) ==
    __eq__(IF left.k = "elem" THEN left.ref ELSE right.ref,
           IF left.k = "elem" THEN right ELSE left, h, inst)

MsgOtherEither == "other must be either 1-like or 0-like"

\* __lt__ after `other = GF2(other)`, whose outcome is c
LessThan(self, c) ==
    IF c.res.k = "exc"
    THEN IF c.res.exc = "TypeError" THEN Outcome(NotImplemented, c.heap, c.inst)
         ELSE IF c.res.exc = "ValueError"
              THEN Outcome(Raise("ValueError", MsgOtherEither), c.heap, c.inst)
         ELSE c
    ELSE Outcome(BoolRes(IntOf(c.heap, self) < IntOf(c.heap, c.res.v)),
                 c.heap, c.inst)

\* self.__lt__(other)
__lt__(self, other, h, inst) ==
    LessThan(self, New("GF2", other, DefaultStrict, DefaultThreshold, h, inst))

\* `self == other or self < other` once `self == other` has the outcome eq;
\* the `<` in it is the operator: other's own type declines the reflected
\* comparison, so that NotImplemented from __lt__ ends in TypeError
OrLess(eq, self, other) ==
    IF eq.res.k = "bool" /\ eq.res.v = 0
    THEN Dispatched(__lt__(self, other, eq.heap, eq.inst))
    ELSE eq

\* self.__le__(other)
__le__(self, other, h, inst) == OrLess(__eq__(self, other, h, inst), self, other)

\* functools.total_ordering finds __lt__ and __le__ in the class and adds
\* __gt__ as `not self < other and self != other` and __ge__ as
\* `not self < other`, both handing on NotImplemented
GtFromLt(lt, self, other) ==
    IF lt.res.k # "bool" THEN lt
    ELSE IF lt.res.v = 1 THEN Outcome(BoolRes(FALSE), lt.heap, lt.inst)
    ELSE Outcome(BoolRes(__eq__(self, other, lt.heap, lt.inst).res.v = 0),
                 lt.heap, lt.inst)

__gt__(self, other, h, inst) == GtFromLt(__lt__(self, other, h, inst), self, other)

GeFromLt(lt) ==
    IF lt.res.k # "bool" THEN lt
    ELSE Outcome(BoolRes(lt.res.v = 0), lt.heap, lt.inst)

__ge__(self, other, h, inst) == GeFromLt(__lt__(self, other, h, inst))

Orderings == {"<", "<=", ">", ">="}

\* the operator with its operands swapped: a < b is b > a
Swapped(op) ==
    CASE op = "<" -> ">" [] op = "<=" -> ">="
      [] op = ">" -> "<" [] op = ">=" -> "<="

\* the rich comparison method of the element `self` for `self op other`
RichCompare(op, self, other, h, inst) ==
    CASE op = "<" -> __lt__(self, other, h, inst)
      [] op = "<=" -> __le__(self, other, h, inst)
      [] op = ">" -> __gt__(self, other, h, inst)
      [] op = ">=" -> __ge__(self, other, h, inst)

\* `left op right` with a GF2 element on at least one side: the method of
\* the element on the left, otherwise (an int, a float, a complex number, a
\* string, a tuple and None decline) the swapped method of the element on
\* the right; NotImplemented ends in TypeError
Ordering(op, left, right, h, inst) ==
    Dispatched(IF left.k = "elem"
               THEN RichCompare(op, left.ref, right, h, inst)
               ELSE RichCompare(Swapped(op), right.ref, left, h, inst))

---------------------------------------------------------------------------
(* Numbers of the fields.  One offset e of a float is 1 / Unit, a tenth of *)
(* THRESHOLD = 10^-NDIGITS.  A finite float is kept with its offset nearest *)
(* to zero (-Unit/2 <= e < Unit/2), so that the order of two floats is the *)
(* lexicographic order of (w, e).                                          *)

\* offsets per 1
Unit == TenthsPerThreshold * Power(10, NDIGITS)

\* config.MAX_DENOMINATOR = math.trunc(1 / THRESHOLD)
MAX_DENOMINATOR == Unit \div TenthsPerThreshold

\* a finite float as a number of offsets, and back
ToX(f) == f.w * Unit + f.e

FromX(x) ==
    Fin((2 * x + Unit) \div (2 * Unit),
        x - Unit * ((2 * x + Unit) \div (2 * Unit)))

\* x offsets rounded to a multiple of step offsets, a tie to the even one
RoundX(x, step) ==
    IF 2 * (x % step) < step THEN (x \div step) * step
    ELSE IF 2 * (x % step) > step THEN ((x \div step) + 1) * step
    ELSE IF (x \div step) % 2 = 0 THEN (x \div step) * step
    ELSE ((x \div step) + 1) * step

\* round(f, ndigits) for ndigits >= 0; more digits than an offset holds
\* change nothing
Round(f, ndigits) ==
    IF f.k # "fin" \/ ndigits > NDIGITS THEN f
    ELSE FromX(RoundX(ToX(f), Unit \div Power(10, ndigits)))

AbsInt(n) == IF n < 0 THEN -n ELSE n

RECURSIVE GCD(_, _)
GCD(a, b) == IF b = 0 THEN a ELSE GCD(b, a % b)

\* fractions.Fraction(n, d) for d > 0, in lowest terms
Fraction(n, d) ==
    [n |-> n \div GCD(AbsInt(n), d), d |-> d \div GCD(AbsInt(n), d),
     huge |-> FALSE]

\* Fraction(10**400): an integer beyond the floats
HugeFraction == [n |-> 0, d |-> 1, huge |-> TRUE]

\* Fraction.from_float(f) of a finite float
FromFloat(f) == Fraction(ToX(f), Unit)

\* float(q): the float nearest to the fraction
ToFloat(q) == FromX((2 * q.n * Unit + q.d) \div (2 * q.d))

\* q1 < q2, q1 == q2 on fractions
FracLess(q1, q2) == q1.n * q2.d < q2.n * q1.d

\* the loop of limit_denominator: the last convergents p0/q0 and p1/q1 of
\* n/d whose denominators are at most m
RECURSIVE Convergents(_, _, _, _, _, _, _)
Convergents(p0, q0, p1, q1, n, d, m) ==
    IF q0 + (n \div d) * q1 > m
    THEN [p0 |-> p0, q0 |-> q0, p1 |-> p1, q1 |-> q1]
    ELSE Convergents(p1, q1, p0 + (n \div d) * p1, q0 + (n \div d) * q1,
                     d, n - (n \div d) * d, m)

\* the end of limit_denominator: of bound1 = pb/qb and bound2 = p1/q1 the
\* one closer to q, bound2 in a tie
Closest(q, pb, qb, p1, q1) ==
    IF AbsInt(p1 * q.d - q.n * q1) * qb <= AbsInt(pb * q.d - q.n * qb) * q1
    THEN Fraction(p1, q1)
    ELSE Fraction(pb, qb)

BestBounds(q, c, m) ==
    Closest(q, c.p0 + ((m - c.q0) \div c.q1) * c.p1,
            c.q0 + ((m - c.q0) \div c.q1) * c.q1, c.p1, c.q1)

\* mutant: the denominator is not limited
LimitDenominatorNot(q, m) == q

\* q.limit_denominator(m) for m >= 1
LimitDenominator(q, m) ==
    IF q.huge \/ q.d <= m THEN q
    ELSE BestBounds(q, Convergents(0, 1, 1, 0, q.n, q.d, m), m)

---------------------------------------------------------------------------
(* The fields Q, R, C and GF2: cast and validate *)

Fields == {"Q", "R", "C", "GF2"}

MsgNotElement == "value is not an element of the field"
MsgMaxDenominator == "max_denominator should be at least 1"
MsgKeyword == "takes no keyword arguments"

\* an element of Q (a fraction), of R (a float) or of C (a complex number)
\* as the result of a call; an element of GF2 is an object
ElemRes(e) == [k |-> "elem", v |-> 0, exc |-> "", msg |-> "", e |-> e]

Complex(re, im) == [re |-> re, im |-> im]

\* the keyword options of a call: kwargs names the options that are given,
\* the others hold their defaults
Options(kwargs, strict, threshold, max_denominator, ndigits) ==
    [kwargs |-> kwargs, strict |-> strict, threshold |-> threshold,
     max_denominator |-> max_denominator, ndigits |-> ndigits]

Defaults == Options({}, DefaultStrict, THRESHOLD, MAX_DENOMINATOR, NDIGITS)

\* a native number of the type complex: in the fields, a number with an
\* imaginary part of exactly zero is taken to be an int or a float
IsComplex(value) == value.k = "num" /\ value.im # Zero0

\* float(value)
ToReal(value, h) ==
    IF IsComplex(value) THEN [exc |-> "TypeError", re |-> Zero0, im |-> Zero0]
    ELSE ToComplex(value, h)

Failed(exc) == [exc |-> exc, q |-> Fraction(0, 1)]

\* Fraction("...") on the strings of the model: no infinities
ParseFraction(c) ==
    IF c.exc # "" \/ c.re.k # "fin" THEN Failed("ValueError")
    ELSE [exc |-> "", q |-> FromFloat(c.re)]

\* fractions.Fraction(value)
ToFraction(value, h) ==
    CASE value.k = "num" ->
            IF IsComplex(value) THEN Failed("TypeError")
            ELSE IF value.re.k = "nan" THEN Failed("ValueError")
            ELSE IF value.re.k = "inf" THEN Failed("OverflowError")
            ELSE [exc |-> "", q |-> FromFloat(value.re)]
      [] value.k = "str" -> ParseFraction(ParseComplex(value.s))
      [] value.k = "elem" -> [exc |-> "", q |-> Fraction(IntOf(h, value.ref), 1)]
      [] value.k = "hugeint" -> [exc |-> "", q |-> HugeFraction]
      [] OTHER -> Failed("TypeError")

\* RationalField._cast_func after Fraction(value), whose outcome is f
QCastFunc(f, max_denominator) ==
    IF f.exc # "" THEN Raise(f.exc, "")
    ELSE IF max_denominator < 1 THEN Raise("ValueError", MsgMaxDenominator)
    ELSE ElemRes(LimitDenominator(f.q, max_denominator))

\* Field._cast_func of R: float(value, **kwargs)
RCastFunc(c, kwargs) ==
    IF kwargs # {} THEN Raise("TypeError", MsgKeyword)
    ELSE IF c.exc # "" THEN Raise(c.exc, "")
    ELSE ElemRes(c.re)

\* Field._cast_func of C: complex(value, **kwargs)
CCastFunc(c, kwargs) ==
    IF kwargs # {} THEN Raise("TypeError", MsgKeyword)
    ELSE IF c.exc # "" THEN Raise(c.exc, "")
    ELSE ElemRes(Complex(c.re, c.im))

\* lalib.elements.galois.gf2(value, strict=..., threshold=...): the
\* constructor of the elements
gf2(value, strict, threshold, h, inst) ==
    New("GF2", value, strict, threshold, h, inst)

\* field._cast_func(value, **opts)
_cast_func(field, value, opts, h, inst) ==
    CASE field = "Q" ->
            Outcome(QCastFunc(ToFraction(value, h), opts.max_denominator),
                    h, inst)
      [] field = "R" -> Outcome(RCastFunc(ToReal(value, h), opts.kwargs), h, inst)
      [] field = "C" ->
            Outcome(CCastFunc(ToComplex(value, h), opts.kwargs), h, inst)
      [] field = "GF2" -> gf2(value, opts.strict, opts.threshold, h, inst)

\* mutant: only TypeError and ValueError are caught
CaughtNoArithmetic(exc) == exc \in {"TypeError", "ValueError"}

\* `except (ArithmeticError, TypeError, ValueError)`
Caught(exc) ==
    exc \in {"OverflowError", "ZeroDivisionError", "TypeError", "ValueError"}

IsFinite(x) == x.k = "fin"

\* mutant: every castable value becomes an element
PostCastFilterNone(field, e) == TRUE

\* field._post_cast_filter(element): math.isfinite for R, cmath.isfinite
\* for C, True for Q and GF2
_post_cast_filter(field, e) ==
    CASE field = "R" -> IsFinite(e)
      [] field = "C" -> IsFinite(e.re) /\ IsFinite(e.im)
      [] OTHER -> TRUE

\* Field.cast after `element = self._cast_func(...)`, whose outcome is c
Filtered(field, c) ==
    IF c.res.k = "exc"
    THEN IF Caught(c.res.exc)
         THEN Outcome(Raise("ValueError", MsgNotElement), c.heap, c.inst)
         ELSE c
    ELSE IF ~_post_cast_filter(field, IF c.res.k = "elem" THEN c.res.e ELSE c.res.v)
         THEN Outcome(Raise("ValueError", MsgNotElement), c.heap, c.inst)
    ELSE c

\* field.cast(value, **opts)
cast(field, value, opts, h, inst) ==
    Filtered(field, _cast_func(field, value, opts, h, inst))

\* mutant: a failed cast is never reported by raising
Silenced(c, silent) ==
    IF c.res.k = "exc"
    THEN IF c.res.exc = "ValueError"
         THEN Outcome(BoolRes(FALSE), c.heap, c.inst)
         ELSE c
    ELSE Outcome(BoolRes(TRUE), c.heap, c.inst)

\* Field.validate after `self.cast(...)`, whose outcome is c
Validated(c, silent) ==
    IF c.res.k = "exc"
    THEN IF c.res.exc = "ValueError" /\ silent
         THEN Outcome(BoolRes(FALSE), c.heap, c.inst)
         ELSE c
    ELSE Outcome(BoolRes(TRUE), c.heap, c.inst)

\* field.validate(value, silent=..., **opts)
validate(field, value, silent, opts, h, inst) ==
    Validated(cast(field, value, opts, h, inst), silent)

---------------------------------------------------------------------------
(* The fields: is_zero and is_one *)

\* field._additive_identity; for GF2 the object `zero`
_additive_identity(field) ==
    CASE field = "Q" -> Fraction(0, 1)
      [] field = "R" -> Zero0
      [] field = "C" -> Complex(Zero0, Zero0)
      [] field = "GF2" -> zero

\* field._multiplicative_identity; for GF2 the object `one`
_multiplicative_identity(field) ==
    CASE field = "Q" -> Fraction(1, 1)
      [] field = "R" -> Fin(1, 0)
      [] field = "C" -> Complex(Fin(1, 0), Zero0)
      [] field = "GF2" -> one

\* mutant: a value that cannot be cast is no identity
EqualsIdentityQuiet(field, c, identity) ==
    IF c.res.k = "exc" THEN Outcome(BoolRes(FALSE), c.heap, c.inst)
    ELSE IF field = "GF2" THEN __eq__(c.res.v, Elem(identity), c.heap, c.inst)
    ELSE Outcome(BoolRes(c.res.e = identity), c.heap, c.inst)

\* Field.is_zero and Field.is_one after `self.cast(value, **cast_kwargs)`,
\* whose outcome is c: element == identity
EqualsIdentity(field, c, identity) ==
    IF c.res.k = "exc" THEN c
    ELSE IF field = "GF2" THEN __eq__(c.res.v, Elem(identity), c.heap, c.inst)
    ELSE Outcome(BoolRes(c.res.e = identity), c.heap, c.inst)

\* hypot(x, y) < t for numbers of offsets x, y >= 0
HypotLess(x, y, t) ==
    IF x >= t \/ y >= t THEN FALSE ELSE x * x + y * y < t * t

\* abs(element - identity) < threshold for floats and for complex numbers
AbsLess(field, e, identity, threshold) ==
    IF field = "R" THEN Less(Abs(Minus(e, identity)), threshold)
    ELSE HypotLess(AbsInt(ToX(e.re) - ToX(identity.re)),
                   AbsInt(ToX(e.im) - ToX(identity.im)), ToX(threshold))

\* mutant: a deviation of exactly the threshold is accepted
WithinThresholdOrAt(field, c, identity, threshold) ==
    IF c.res.k = "exc" THEN c
    ELSE Outcome(BoolRes(AbsLess(field, c.res.e, identity, threshold)
                         \/ (field = "R"
                             /\ Abs(Minus(c.res.e, identity)) = threshold)),
                 c.heap, c.inst)

\* is_zero and is_one of R and C after `self.cast(value)`, whose outcome
\* is c
WithinThreshold(field, c, identity, threshold) ==
    IF c.res.k = "exc" THEN c
    ELSE Outcome(BoolRes(AbsLess(field, c.res.e, identity, threshold)),
                 c.heap, c.inst)

\* the check of a value against an identity: R and C cast without the
\* keyword options and compare within the threshold, Q and GF2 cast with
\* them and compare for equality
IsIdentity(field, value, identity, opts, h, inst) ==
    IF field \in {"R", "C"}
    THEN WithinThreshold(field, cast(field, value, Defaults, h, inst),
                         identity, opts.threshold)
    ELSE EqualsIdentity(field, cast(field, value, opts, h, inst), identity)

\* field.is_zero(value, **opts)
is_zero(field, value, opts, h, inst) ==
    IsIdentity(field, value, _additive_identity(field), opts, h, inst)

\* field.is_one(value, **opts)
is_one(field, value, opts, h, inst) ==
    IsIdentity(field, value, _multiplicative_identity(field), opts, h, inst)

---------------------------------------------------------------------------
(* The fields: a cast element compared with the value it was cast from *)

\* the fraction, float or complex number e as a native number
AsNumber(field, e) ==
    CASE field = "Q" -> Num(ToFloat(e), Zero0)
      [] field = "R" -> Num(e, Zero0)
      [] field = "C" -> Num(e.re, e.im)

\* e == value for an element e of Q, R or C and a native value: numbers
\* are compared by their exact values, a string, a tuple and None are
\* equal to no number
SameNumber(field, e, value, h) ==
    CASE value.k = "num" ->
            (CASE field = "Q" ->
                    /\ ~IsComplex(value) /\ IsFinite(value.re)
                    /\ e = FromFloat(value.re)
               [] field = "R" -> ~IsComplex(value) /\ e = value.re
               [] field = "C" -> e.re = value.re /\ e.im = value.im)
      [] value.k = "hugeint" -> field = "Q" /\ e.huge
      [] value.k = "elem" -> field = "Q" /\ e = Fraction(IntOf(h, value.ref), 1)
      [] OTHER -> FALSE

\* mutant: whatever can be cast is equal to its element
EqualsInputAlways(field, c, value) ==
    IF c.res.k = "exc" THEN c ELSE Outcome(BoolRes(TRUE), c.heap, c.inst)

\* `element == value` after `element = field.cast(value, **opts)`, whose
\* outcome is c: an element of GF2 on either side decides by its __eq__, a
\* fraction compares itself with an element of GF2 as with a rational
EqualsInput(field, c, value) ==
    IF c.res.k = "exc" THEN c
    ELSE IF field = "GF2" THEN __eq__(c.res.v, value, c.heap, c.inst)
    ELSE IF value.k = "elem" /\ field # "Q"
         THEN __eq__(value.ref, AsNumber(field, c.res.e), c.heap, c.inst)
    ELSE Outcome(BoolRes(SameNumber(field, c.res.e, value, c.heap)),
                 c.heap, c.inst)

---------------------------------------------------------------------------
(* The fields: random *)

\* an identity of a field as the argument of a cast
IdentityValue(field, n) ==
    IF field = "GF2" THEN Elem(IF n = 1 THEN one ELSE zero) ELSE Whole(n)

\* `bound if bound is not None else identity`
BoundOr(bound, identity) == IF bound.k = "none" THEN identity ELSE bound

\* the end of Field._get_bounds after the cast of `lower`, whose outcome is
\* l: the outcomes of both casts; the cast of `upper` is not reached when
\* the one of `lower` raises
BothBounds(field, l, upper, opts) ==
    [l |-> l,
     u |-> IF l.res.k = "exc" THEN l
           ELSE cast(field, BoundOr(upper, IdentityValue(field, 1)), opts,
                     l.heap, l.inst)]

\* field._get_bounds(lower, upper, **opts)
_get_bounds(field, lower, upper, opts, h, inst) ==
    BothBounds(field,
               cast(field, BoundOr(lower, IdentityValue(field, 0)), opts, h,
                    inst),
               upper, opts)

\* random.uniform(a, b) = a + (b - a) * random.random(): the k-th of the
\* Draws + 1 evenly spaced numbers from a to b
Uniform(a, b, k) == FromX(ToX(a) + ((ToX(b) - ToX(a)) * k) \div Draws)

\* round(rand_value, ndigits)
Rounded(f, ndigits) == Round(f, ndigits)

\* the end of RationalField.random for the bounds l and u
QDrawn(l, u, max_denominator, k) ==
    IF l.huge \/ u.huge THEN Raise("OverflowError", "")
    ELSE IF max_denominator < 1 THEN Raise("ValueError", MsgMaxDenominator)
    ELSE ElemRes(LimitDenominator(
                     LimitDenominator(
                         FromFloat(Uniform(ToFloat(l), ToFloat(u), k)),
                         MAX_DENOMINATOR),
                     max_denominator))

\* the end of random after `self._get_bounds(...)`, whose outcome is b; k
\* and j number the draws of the call
Drawn(field, b, opts, k, j) ==
    IF b.u.res.k = "exc" THEN b.u
    ELSE Outcome(
             CASE field = "Q" ->
                     QDrawn(b.l.res.e, b.u.res.e, opts.max_denominator, k)
               [] field = "R" ->
                     ElemRes(Rounded(Uniform(b.l.res.e, b.u.res.e, k),
                                     opts.ndigits))
               [] field = "C" ->
                     ElemRes(Complex(
                         Rounded(Uniform(b.l.res.e.re, b.u.res.e.re, k),
                                 opts.ndigits),
                         Rounded(Uniform(b.l.res.e.im, b.u.res.e.im, j),
                                 opts.ndigits)))
               [] field = "GF2" ->
                     ObjRes(IF k = 0 THEN b.l.res.v ELSE b.u.res.v),
             b.u.heap, b.u.inst)

\* field.random(lower=lower, upper=upper, **opts): only GF2 hands the
\* keyword options on to the casts of the bounds
random(field, lower, upper, opts, k, j, h, inst) ==
    Drawn(field,
          _get_bounds(field, lower, upper,
                      IF field = "GF2" THEN opts ELSE Defaults, h, inst),
          opts, k, j)

---------------------------------------------------------------------------
(* The fields: arithmetic of the elements.  The elements of GF2 compute as *)
(* above and fractions are exact; a float operation gives the exact result *)
(* rounded to the nearest float of the model, a multiple of 1 / Unit.       *)

\* n / d rounded to an integer, for d > 0
RoundDiv(n, d) == RoundX(n, d) \div d

FAdd(x, y) == FromX(ToX(x) + ToX(y))
FSub(x, y) == FromX(ToX(x) - ToX(y))
FMul(x, y) == FromX(RoundDiv(ToX(x) * ToX(y), Unit))

\* x / y for y # 0
FDiv(x, y) ==
    FromX(IF ToX(y) > 0 THEN RoundDiv(ToX(x) * Unit, ToX(y))
          ELSE RoundDiv((-ToX(x)) * Unit, -ToX(y)))

\* complex multiplication
CMul(x, y) ==
    Complex(FSub(FMul(x.re, y.re), FMul(x.im, y.im)),
            FAdd(FMul(x.re, y.im), FMul(x.im, y.re)))

\* the end of the complex division: (re + im * i) / denom
CScaled(re, im, denom) == Complex(FDiv(re, denom), FDiv(im, denom))

\* (1 + 0i) / y for y # 0, as the complex division computes it for the
\* ratio of the smaller to the larger part of y
COneOver(y, ratio) ==
    IF ~Less(Abs(y.re), Abs(y.im))
    THEN CScaled(Fin(1, 0), FSub(Zero0, ratio), FAdd(y.re, FMul(y.im, ratio)))
    ELSE CScaled(ratio, Fin(-1, 0), FAdd(FMul(y.re, ratio), y.im))

CInverse(y) ==
    COneOver(y, IF ~Less(Abs(y.re), Abs(y.im)) THEN FDiv(y.im, y.re)
                ELSE FDiv(y.re, y.im))

FracAdd(p, q) == Fraction(p.n * q.d + q.n * p.d, p.d * q.d)
FracMul(p, q) == Fraction(p.n * q.n, p.d * q.d)
FracInverse(q) == Fraction(IF q.n < 0 THEN -q.d ELSE q.d, AbsInt(q.n))

\* the ZeroDivisionError of GF2 and the one of a fraction, a float and a
\* complex number
DivisionByZero == Raise("ZeroDivisionError", MsgDivision)
NativeDivisionByZero == Raise("ZeroDivisionError", "division by zero")

\* x + y for the results x and y of expressions over a field
Add(field, x, y, h, inst) ==
    IF x.k = "exc" THEN x
    ELSE IF y.k = "exc" THEN y
    ELSE CASE field = "GF2" -> BinaryOp("+", Elem(x.v), Elem(y.v), h, inst).res
           [] field = "Q" -> ElemRes(FracAdd(x.e, y.e))
           [] field = "R" -> ElemRes(FAdd(x.e, y.e))
           [] field = "C" ->
                 ElemRes(Complex(FAdd(x.e.re, y.e.re), FAdd(x.e.im, y.e.im)))

\* x * y
Mul(field, x, y, h, inst) ==
    IF x.k = "exc" THEN x
    ELSE IF y.k = "exc" THEN y
    ELSE CASE field = "GF2" -> BinaryOp("*", Elem(x.v), Elem(y.v), h, inst).res
           [] field = "Q" -> ElemRes(FracMul(x.e, y.e))
           [] field = "R" -> ElemRes(FMul(x.e, y.e))
           [] field = "C" -> ElemRes(CMul(x.e, y.e))

\* -x
Neg(field, x) ==
    CASE field = "GF2" -> UnaryOp("__neg__", x.v)
      [] field = "Q" -> ElemRes(Fraction(-x.e.n, x.e.d))
      [] field = "R" -> ElemRes(FSub(Zero0, x.e))
      [] field = "C" -> ElemRes(Complex(FSub(Zero0, x.e.re), FSub(Zero0, x.e.im)))

\* the identities as results
Identity(field, n) ==
    IF field = "GF2" THEN ObjRes(IF n = 1 THEN one ELSE zero)
    ELSE ElemRes(IF n = 1 THEN _multiplicative_identity(field)
                 ELSE _additive_identity(field))

\* field.one / x
Inverse(field, x, h, inst) ==
    CASE field = "GF2" ->
            BinaryOp("/", Elem(Identity(field, 1).v), Elem(x.v), h, inst).res
      [] field = "Q" ->
            IF x.e.n = 0 THEN NativeDivisionByZero ELSE ElemRes(FracInverse(x.e))
      [] field = "R" ->
            IF x.e = Zero0 THEN NativeDivisionByZero
            ELSE ElemRes(FDiv(Fin(1, 0), x.e))
      [] field = "C" ->
            IF x.e = Complex(Zero0, Zero0) THEN NativeDivisionByZero
            ELSE ElemRes(CInverse(x.e))

Axioms ==
    {"associativity of +", "associativity of *", "commutativity of +",
     "commutativity of *", "additive identity", "multiplicative identity",
     "additive inverse", "multiplicative inverse", "distributivity"}

Sides(left, right) == [left |-> left, right |-> right]

\* the two sides that the test of an axiom compares, for the elements a, b
\* and c
AxiomSides(axiom, field, a, b, c, h, inst) ==
    CASE axiom = "associativity of +" ->
            Sides(Add(field, a, Add(field, b, c, h, inst), h, inst),
                  Add(field, Add(field, a, b, h, inst), c, h, inst))
      [] axiom = "associativity of *" ->
            Sides(Mul(field, a, Mul(field, b, c, h, inst), h, inst),
                  Mul(field, Mul(field, a, b, h, inst), c, h, inst))
      [] axiom = "commutativity of +" ->
            Sides(Add(field, a, b, h, inst), Add(field, b, a, h, inst))
      [] axiom = "commutativity of *" ->
            Sides(Mul(field, a, b, h, inst), Mul(field, b, a, h, inst))
      [] axiom = "additive identity" ->
            Sides(Add(field, a, Identity(field, 0), h, inst), a)
      [] axiom = "multiplicative identity" ->
            Sides(Mul(field, a, Identity(field, 1), h, inst), a)
      [] axiom = "additive inverse" ->
            Sides(Add(field, a, Neg(field, a), h, inst), Identity(field, 0))
      [] axiom = "multiplicative inverse" ->
            Sides(Mul(field, a, Inverse(field, a, h, inst), h, inst),
                  Identity(field, 1))
      [] axiom = "distributivity" ->
            Sides(Mul(field, a, Add(field, b, c, h, inst), h, inst),
                  Add(field, Mul(field, a, b, h, inst),
                      Mul(field, a, c, h, inst), h, inst))

\* the outcome of the test of an axiom
AxiomRes(axiom, a, b, c, sides) ==
    [k |-> "sides", v |-> 0, exc |-> "", msg |-> "", axiom |-> axiom,
     a |-> a, b |-> b, c |-> c, left |-> sides.left, right |-> sides.right]

---------------------------------------------------------------------------
(* The inputs of the model *)

Big == 42

Wholes == ((-MaxWhole)..MaxWhole) \cup {Big, -Big}

\* offsets in tenths of THRESHOLD: none, a tenth of THRESHOLD on either
\* side, just under and just over the half of THRESHOLD, THRESHOLD itself,
\* ten times THRESHOLD
Offsets ==
    {0, 1, -1, TenthsPerThreshold \div 2 - 1, TenthsPerThreshold \div 2 + 1,
     TenthsPerThreshold, 10 * TenthsPerThreshold}

Floats == {Fin(w, e) : w \in Wholes, e \in Offsets} \cup {NaN, Inf(1), Inf(-1)}

Imags == {Fin(0, 1), Fin(0, TenthsPerThreshold),
          Fin(0, 10 * TenthsPerThreshold), Fin(Big, 0), NaN}

Numbers == {Num(re, Zero0) : re \in Floats}
           \cup {Num(Fin(w, 0), im) : w \in {0, 1}, im \in Imags}

Strings == {Str(s) : s \in {"abc", "1", "0.0", "42", "-inf"}}

Elements(h) == {Elem(ref) : ref \in 1..Len(h)}

Values(h) == Numbers \cup Strings \cup {Tuple, None, HugeInt} \cup Elements(h)

Thresholds == {THRESHOLD, Fin(0, Scaler * TenthsPerThreshold),
               Fin(BigThreshold, 0)}

Classes == {"GF2", "GF2One", "GF2Zero"}

MaxDenominators == {0, 1, 2, MAX_DENOMINATOR}

\* the bounds of random: none, the identities, a negative number, a
\* complex number, numbers between 0 and 1 and closer to 0 than THRESHOLD,
\* a string that is no number, an int beyond the floats
BoundValues ==
    {None, Whole(0), Whole(1), Whole(-1), Num(Fin(1, 0), Fin(0, 1)),
     Num(Fin(0, 1), Zero0), Num(Fin(0, 6 * TenthsPerThreshold), Zero0),
     Num(Fin(0, 7 * TenthsPerThreshold), Zero0), Str("abc"), HugeInt}

Roundings == {0, NDIGITS}

\* the keyword options of the calls on a field: none, or strict and
\* threshold, or max_denominator, or ndigits
AllOptions ==
    {Defaults}
    \cup {Options({"strict", "threshold"}, strict, threshold, MAX_DENOMINATOR,
                  NDIGITS) : strict \in BOOLEAN, threshold \in Thresholds}
    \cup {Options({"max_denominator"}, DefaultStrict, THRESHOLD, m, NDIGITS) :
             m \in MaxDenominators}
    \cup {Options({"ndigits"}, DefaultStrict, THRESHOLD, MAX_DENOMINATOR, n) :
             n \in Roundings}

---------------------------------------------------------------------------
(* The field classes are singletons (fields/utils.py).  The import of      *)
(* lalib.fields runs the modules complex_, galois, rational and real, each  *)
(* of which ends with the construction of its field; then the threads of    *)
(* the clients call the constructors, and the steps of __new__ of several   *)
(* threads interleave.  A field class is named by its field: "Q" is         *)
(* RationalField, "R" RealField, "C" ComplexField, "GF2" GaloisField2.      *)

Threads == 2         \* the threads of the clients

ImportOrder == <<"C", "GF2", "Q", "R">>

MainThread == 0

Clients == 1..Threads

Idle == [pc |-> "idle", cls |-> "", ret |-> 0]

FieldsInit ==
    /\ _instance = [cls \in Fields |-> 0]
    /\ objects = <<>>
    /\ names = [cls \in Fields |-> 0]
    /\ threads = [t \in {MainThread} \cup Clients |-> Idle]

\* every module of lalib.fields has run to its end
FieldsImported == \A cls \in Fields : names[cls] # 0

IsNoneAlways(cls, inst) == TRUE

\* getattr(cls, "_instance", None) is None
IsNone(cls, inst) == inst[cls] = 0

\* the import reaches the last line of the next module: Q = RationalField()
ImportField(cls) ==
    /\ threads[MainThread].pc = "idle"
    /\ \E i \in 1..Len(ImportOrder) :
          /\ ImportOrder[i] = cls
          /\ names[cls] = 0
          /\ \A j \in 1..(i - 1) : names[ImportOrder[j]] # 0
    /\ threads' = [threads EXCEPT ![MainThread] =
                       [pc |-> "check", cls |-> cls, ret |-> 0]]
    /\ UNCHANGED <<_instance, objects, names>>
    /\ UNCHANGED <<elementVars, domainVars>>

\* the module binds its name to the object the constructor has returned
BindField ==
    /\ threads[MainThread].pc = "done"
    /\ names' = [names EXCEPT ![threads[MainThread].cls] =
                     threads[MainThread].ret]
    /\ threads' = [threads EXCEPT ![MainThread] = Idle]
    /\ UNCHANGED <<_instance, objects>>
    /\ UNCHANGED <<elementVars, domainVars>>

\* a thread of a client calls cls()
CallField(t, cls) ==
    /\ FieldsImported
    /\ threads[t].pc = "idle"
    /\ threads' = [threads EXCEPT ![t] = [pc |-> "check", cls |-> cls, ret |-> 0]]
    /\ UNCHANGED <<_instance, objects, names>>
    /\ UNCHANGED <<elementVars, domainVars>>

\* if getattr(cls, "_instance", None) is None:
CheckInstance(t) ==
    /\ threads[t].pc = "check"
    /\ threads' = [threads EXCEPT ![t].pc =
                       IF IsNone(threads[t].cls, _instance) THEN "create"
                       ELSE "return"]
    /\ UNCHANGED <<_instance, objects, names>>
    /\ UNCHANGED <<elementVars, domainVars>>

\* cls._instance = super().__new__(cls, *args, **kwargs)
CreateInstance(t) ==
    /\ threads[t].pc = "create"
    /\ objects' = Append(objects, threads[t].cls)
    /\ _instance' = [_instance EXCEPT ![threads[t].cls] = Len(objects')]
    /\ threads' = [threads EXCEPT ![t].pc = "return"]
    /\ UNCHANGED names
    /\ UNCHANGED <<elementVars, domainVars>>

\* return cls._instance
ReturnInstance(t) ==
    /\ threads[t].pc = "return"
    /\ threads' = [threads EXCEPT ![t].pc = "done",
                                  ![t].ret = _instance[threads[t].cls]]
    /\ UNCHANGED <<_instance, objects, names>>
    /\ UNCHANGED <<elementVars, domainVars>>

\* the thread of a client is done with the field it was given
DropField(t) ==
    /\ threads[t].pc = "done"
    /\ threads' = [threads EXCEPT ![t] = Idle]
    /\ UNCHANGED <<_instance, objects, names>>
    /\ UNCHANGED <<elementVars, domainVars>>

FieldsNext ==
    \/ \E cls \in Fields : ImportField(cls)
    \/ BindField
    \/ \E t \in Clients, cls \in Fields : CallField(t, cls)
    \/ \E t \in {MainThread} \cup Clients : CheckInstance(t)
    \/ \E t \in {MainThread} \cup Clients : CreateInstance(t)
    \/ \E t \in {MainThread} \cup Clients : ReturnInstance(t)
    \/ \E t \in Clients : DropField(t)

---------------------------------------------------------------------------
(* Domains (domains.py): Domain(labels) builds a frozenset of labels; the  *)
(* property is_canonical is computed at its first read and kept in the      *)
(* attribute _is_canonical.  Clients construct domains one call after the   *)
(* other; several threads read the property, and their steps interleave.    *)
(* Construction and the reads share no state, so a construction is not      *)
(* interleaved with the reads.                                              *)

MaxLabels == 2       \* an iterable holds up to MaxLabels elements
MaxDomains == 1      \* no call is made that leaves more Domain objects
Readers == 2         \* the threads that read is_canonical

\* labels: ints, strings and a list such as [1], which is not hashable
IntLabel(n) == [k |-> "int", n |-> n, s |-> ""]
StrLabel(s) == [k |-> "str", n |-> 0, s |-> s]
ListLabel == [k |-> "list", n |-> 0, s |-> ""]

Hashable(label) == label.k # "list"

\* the arguments of Domain(...): an int, a float, None, object(), a
\* container or an iterator with its elements (the keys of a dict), a Domain
Argument(k, n, f, items, ref) ==
    [k |-> k, n |-> n, f |-> f, items |-> items, ref |-> ref]
IntArg(n) == Argument("int", n, Zero0, <<>>, 0)
FloatArg(f) == Argument("float", 0, f, <<>>, 0)
NoneArg == Argument("none", 0, Zero0, <<>>, 0)
ObjectArg == Argument("object", 0, Zero0, <<>>, 0)
IterableArg(k, items) == Argument(k, 0, Zero0, items, 0)
DomainArg(ref) == Argument("domain", 0, Zero0, <<>>, ref)

\* containers have a length; an iterator or a generator has none
Sized == {"list", "tuple", "set", "str", "dict", "range"}

Iterators == {"iterator", "generator"}

\* isinstance(labels, collections_abc.Iterable)
IsIterable(labels) == labels.k \in Sized \cup Iterators

\* int(x) of a finite float: the fraction is cut off towards zero
Trunc(f) ==
    IF f.e > 0 /\ f.w < 0 THEN f.w + 1
    ELSE IF f.e < 0 /\ f.w > 0 THEN f.w - 1
    ELSE f.w

\* int(labels)
ToInt(labels) ==
    CASE labels.k = "int" -> [exc |-> "", v |-> labels.n]
      [] labels.k = "float" /\ labels.f.k = "fin" ->
            [exc |-> "", v |-> Trunc(labels.f)]
      [] labels.k = "float" /\ labels.f.k = "nan" ->
            [exc |-> "ValueError", v |-> 0]
      [] labels.k = "float" /\ labels.f.k = "inf" ->
            [exc |-> "OverflowError", v |-> 0]
      [] OTHER -> [exc |-> "TypeError", v |-> 0]

\* `n_labels != labels` for a number whose int is n
Differs(n, labels) == labels.k = "float" /\ labels.f # Fin(n, 0)

\* mutant: the labels count from one
RangeFromOne(n) == IterableArg("range", [i \in 1..n |-> IntLabel(i)])

\* range(n_labels)
Range(n) == IterableArg("range", [i \in 1..n |-> IntLabel(i - 1)])

\* the truth value that `not labels` negates: a container is true unless
\* it is empty, an iterator or a generator is always true
Truth(labels) == labels.k \in Iterators \/ Len(labels.items) > 0

MsgPositive == "must provide a positive integer"
MsgAtLeastOne == "must provide at least one label or a positive integer"
MsgHashable == "must provide hashable labels"

\* outcome of a constructor call: the result and the Domain objects
Made(res, ds) == [res |-> res, domains |-> ds]

\* the set of the elements of an iterable
SetOf(items) == {items[i] : i \in DOMAIN items}

\* the end of __new__: the test for emptiness and
\* `super().__new__(cls, labels)`, which hashes every element
FromLabels(labels, ds) ==
    IF ~Truth(labels) THEN Made(Raise("ValueError", MsgAtLeastOne), ds)
    ELSE IF \E i \in DOMAIN labels.items : ~Hashable(labels.items[i])
         THEN Made(Raise("TypeError", MsgHashable), ds)
    ELSE Made(ObjRes(Len(ds) + 1),
              Append(ds, [labels |-> SetOf(labels.items),
                          _is_canonical |-> <<>>]))

\* the branch of __new__ for labels that are not iterable, after
\* `n_labels = int(labels)`, whose outcome is n
FromNumber(n, labels, ds) ==
    IF n.exc \in {"TypeError", "ValueError"}
    THEN Made(Raise("TypeError", MsgPositive), ds)
    ELSE IF n.exc # "" THEN Made(Raise(n.exc, ""), ds)
    ELSE IF Differs(n.v, labels) THEN Made(Raise("ValueError", MsgPositive), ds)
    ELSE FromLabels(Range(n.v), ds)

\* Domain(labels)
NewDomain(labels, ds) ==
    IF labels.k = "domain" THEN Made(ObjRes(labels.ref), ds)
    ELSE IF ~IsIterable(labels) THEN FromNumber(ToInt(labels), labels, ds)
    ELSE FromLabels(labels, ds)

\* mutant: every domain counts as canonical
IsCanonicalAlways(labels) == TRUE

\* `self == set(range(len(self)))`
IsCanonical(labels) ==
    labels = {IntLabel(i) : i \in 0..(Cardinality(labels) - 1)}

\* the labels that the iterables of the model are made of
LabelValues == {IntLabel(0), IntLabel(1), StrLabel("a"), ListLabel}

Characters == {StrLabel("a"), StrLabel("b")}

SeqsOf(S) == UNION {[1..n -> S] : n \in 0..MaxLabels}

Distinct(items) == Cardinality(SetOf(items)) = Len(items)

\* the arguments of the model: ints (-42 among them), floats (2.0, 1 + 1e-13, -1e-13, the
\* infinities, nan), None, object(), containers, iterators, and the domains
\* made so far
Arguments(ds) ==
    {IntArg(n) : n \in {-Big, -1} \cup 0..MaxLabels}
    \cup {FloatArg(f) : f \in {Fin(MaxLabels, 0), Fin(1, 1), Fin(0, -1), Zero0,
                               Inf(1), Inf(-1), NaN}}
    \cup {NoneArg, ObjectArg}
    \cup {IterableArg(k, items) :
            k \in {"list", "tuple"} \cup Iterators, items \in SeqsOf(LabelValues)}
    \cup {IterableArg(k, items) :
            k \in {"set", "dict"},
            items \in {s \in SeqsOf({l \in LabelValues : Hashable(l)}) :
                          Distinct(s)}}
    \cup {IterableArg("str", items) : items \in SeqsOf(Characters)}
    \cup {Range(n) : n \in 0..MaxLabels}
    \cup {DomainArg(ref) : ref \in 1..Len(ds)}

NoDomainCall == [op |-> "", labels |-> NoneArg, res |-> NoRes, before |-> 0]

IdleReader == [pc |-> "idle", d |-> 0, cached |-> FALSE, ret |-> FALSE]

DomainsInit ==
    /\ domains = <<>>
    /\ made = NoDomainCall
    /\ readers = [t \in 1..Readers |-> IdleReader]

\* Domain(labels)
MakeDomain(labels) ==
    /\ made = NoDomainCall
    /\ \A t \in 1..Readers : readers[t].pc = "idle"
    /\ Len(NewDomain(labels, domains).domains) <= MaxDomains
    /\ domains' = NewDomain(labels, domains).domains
    /\ made' = [op |-> "Domain", labels |-> labels,
                res |-> NewDomain(labels, domains).res,
                before |-> Len(domains)]
    /\ UNCHANGED readers
    /\ UNCHANGED <<elementVars, fieldVars>>

\* the caller is done with the outcome of its call
ReturnDomain ==
    /\ made # NoDomainCall
    /\ made' = NoDomainCall
    /\ UNCHANGED <<domains, readers>>
    /\ UNCHANGED <<elementVars, fieldVars>>

\* a thread reads d.is_canonical
Access(t, d) ==
    /\ made = NoDomainCall
    /\ readers[t].pc = "idle"
    /\ readers' = [readers EXCEPT ![t] = [IdleReader EXCEPT !.pc = "try", !.d = d]]
    /\ UNCHANGED <<domains, made>>
    /\ UNCHANGED <<elementVars, fieldVars>>

\* cached = self._is_canonical, or AttributeError
TryCached(t) ==
    /\ readers[t].pc = "try"
    /\ readers' = [readers EXCEPT ![t] =
          IF domains[readers[t].d]._is_canonical = <<>>
          THEN [readers[t] EXCEPT !.pc = "compute"]
          ELSE [readers[t] EXCEPT
                   !.pc = "return",
                   !.cached = domains[readers[t].d]._is_canonical[1]]]
    /\ UNCHANGED <<domains, made>>
    /\ UNCHANGED <<elementVars, fieldVars>>

\* cached := self == set(range(len(self)))
Compute(t) ==
    /\ readers[t].pc = "compute"
    /\ readers' = [readers EXCEPT
                      ![t].pc = "store",
                      ![t].cached = IsCanonical(domains[readers[t].d].labels)]
    /\ UNCHANGED <<domains, made>>
    /\ UNCHANGED <<elementVars, fieldVars>>

\* self._is_canonical = cached
Store(t) ==
    /\ readers[t].pc = "store"
    /\ domains' = [domains EXCEPT ![readers[t].d]._is_canonical =
                       <<readers[t].cached>>]
    /\ readers' = [readers EXCEPT ![t].pc = "return"]
    /\ UNCHANGED made
    /\ UNCHANGED <<elementVars, fieldVars>>

\* return cached
ReturnCached(t) ==
    /\ readers[t].pc = "return"
    /\ readers' = [readers EXCEPT ![t].pc = "done",
                                  ![t].ret = readers[t].cached]
    /\ UNCHANGED <<domains, made>>
    /\ UNCHANGED <<elementVars, fieldVars>>

\* the thread is done with the boolean
DropCached(t) ==
    /\ readers[t].pc = "done"
    /\ readers' = [readers EXCEPT ![t] = IdleReader]
    /\ UNCHANGED <<domains, made>>
    /\ UNCHANGED <<elementVars, fieldVars>>

DomainsNext ==
    \/ \E labels \in Arguments(domains) : MakeDomain(labels)
    \/ ReturnDomain
    \/ \E t \in 1..Readers, d \in 1..Len(domains) : Access(t, d)
    \/ \E t \in 1..Readers : TryCached(t)
    \/ \E t \in 1..Readers : Compute(t)
    \/ \E t \in 1..Readers : Store(t)
    \/ \E t \in 1..Readers : ReturnCached(t)
    \/ \E t \in 1..Readers : DropCached(t)

---------------------------------------------------------------------------
(* The state machine: the module is imported, which creates `one` and      *)
(* `zero`; then client code makes one call after the other.                *)

Call(op, cls, x, y, strict, threshold, res) ==
    [op |-> op, cls |-> cls, x |-> x, y |-> y, strict |-> strict,
     threshold |-> threshold, res |-> res]

NoCall == Call("", "", None, None, DefaultStrict, DefaultThreshold, NoRes)

Init ==
    /\ pc = "import_one"
    /\ heap = <<>>
    /\ _instances = <<>>
    /\ one = 0
    /\ zero = 0
    /\ last = NoCall
    /\ FieldsInit
    /\ DomainsInit

\* the effect of a call with outcome r on the heap and the registry
Commit(r, op, cls, x, y, strict, threshold) ==
    /\ heap' = r.heap
    /\ _instances' = r.inst
    /\ last' = Call(op, cls, x, y, strict, threshold, r.res)

\* one = GF2One()
ImportOne ==
    /\ pc = "import_one"
    /\ Commit(New("GF2One", None, DefaultStrict, DefaultThreshold, heap,
                  _instances),
              "new", "GF2One", None, None, DefaultStrict, DefaultThreshold)
    /\ one' = last'.res.v
    /\ pc' = "import_zero"
    /\ UNCHANGED zero
    /\ UNCHANGED <<fieldVars, domainVars>>

\* zero = GF2Zero()
ImportZero ==
    /\ pc = "import_zero"
    /\ Commit(New("GF2Zero", None, DefaultStrict, DefaultThreshold, heap,
                  _instances),
              "new", "GF2Zero", None, None, DefaultStrict, DefaultThreshold)
    /\ zero' = last'.res.v
    /\ pc' = "ready"
    /\ UNCHANGED one
    /\ UNCHANGED <<fieldVars, domainVars>>

Ready == pc = "ready" /\ Len(heap) < MaxObjects

\* to_gf2(value, strict=strict, threshold=threshold)
CastToGF2(value, strict, threshold) ==
    /\ Ready
    /\ last' = Call("to_gf2", "", None, value, strict, threshold,
                    to_gf2(value, strict, threshold, heap))
    /\ pc' = "returned"
    /\ UNCHANGED <<heap, _instances, one, zero>>
    /\ UNCHANGED <<fieldVars, domainVars>>

\* cls(value, strict=strict, threshold=threshold); cls() is cls(None)
Construct(cls, value, strict, threshold) ==
    /\ Ready
    /\ Commit(New(cls, value, strict, threshold, heap, _instances),
              "new", cls, None, value, strict, threshold)
    /\ pc' = "returned"
    /\ UNCHANGED <<one, zero>>
    /\ UNCHANGED <<fieldVars, domainVars>>

\* gf2(value): the constructor of the elements called with its defaults
ConstructDefault(value) ==
    /\ Ready
    /\ Commit(gf2(value, DefaultStrict, DefaultThreshold, heap, _instances),
              "gf2", "GF2", None, value, DefaultStrict, DefaultThreshold)
    /\ pc' = "returned"
    /\ UNCHANGED <<one, zero>>
    /\ UNCHANGED <<fieldVars, domainVars>>

\* the registry with only the keys kept: what a test leaves of it that
\* replaces GF2._instances, as monkeypatch.setattr(GF2, "_instances", {})
Patched(inst, keys) == [n \in keys |-> inst[n]]

\* cls(value, strict=strict, threshold=threshold) within a test that has
\* replaced the registry and restores it after the call; an object that the
\* call creates is dropped with the replaced registry
ConstructPatched(cls, value, strict, threshold, keys) ==
    /\ Ready
    /\ keys # DOMAIN _instances
    /\ last' = Call("new, patched", cls, Patched(_instances, keys), value,
                    strict, threshold,
                    New(cls, value, strict, threshold, heap,
                        Patched(_instances, keys)).res)
    /\ pc' = "returned"
    /\ UNCHANGED <<heap, _instances, one, zero>>
    /\ UNCHANGED <<fieldVars, domainVars>>

\* left op right
Arithmetic(op, left, right) ==
    /\ Ready
    /\ left.k = "elem" \/ right.k = "elem"
    /\ Commit(BinaryOp(op, left, right, heap, _instances),
              op, "", left, right, DefaultStrict, DefaultThreshold)
    /\ pc' = "returned"
    /\ UNCHANGED <<one, zero>>
    /\ UNCHANGED <<fieldVars, domainVars>>

\* +self, -self, abs(self), self.conjugate()
Unary(op, self) ==
    /\ Ready
    /\ last' = Call(op, "", Elem(self), None, DefaultStrict, DefaultThreshold,
                    UnaryOp(op, self))
    /\ pc' = "returned"
    /\ UNCHANGED <<heap, _instances, one, zero>>
    /\ UNCHANGED <<fieldVars, domainVars>>

\* hash(self)
Hashing(self) ==
    /\ Ready
    /\ last' = Call("hash", "", Elem(self), None, DefaultStrict, DefaultThreshold,
                    __hash__(self, heap))
    /\ pc' = "returned"
    /\ UNCHANGED <<heap, _instances, one, zero>>
    /\ UNCHANGED <<fieldVars, domainVars>>

\* left == right
Equality(left, right) ==
    /\ Ready
    /\ left.k = "elem" \/ right.k = "elem"
    /\ Commit(Equals(left, right, heap, _instances),
              "==", "", left, right, DefaultStrict, DefaultThreshold)
    /\ pc' = "returned"
    /\ UNCHANGED <<one, zero>>
    /\ UNCHANGED <<fieldVars, domainVars>>

\* left < right, left <= right, left > right, left >= right
Comparison(op, left, right) ==
    /\ Ready
    /\ left.k = "elem" \/ right.k = "elem"
    /\ Commit(Ordering(op, left, right, heap, _instances),
              op, "", left, right, DefaultStrict, DefaultThreshold)
    /\ pc' = "returned"
    /\ UNCHANGED <<one, zero>>
    /\ UNCHANGED <<fieldVars, domainVars>>

\* a call on a field with its outcome: x and y are the arguments
FieldCall(op, field, x, y, opts, silent, res) ==
    [op |-> op, cls |-> field, x |-> x, y |-> y, strict |-> opts.strict,
     threshold |-> opts.threshold, res |-> res, opts |-> opts,
     silent |-> silent]

CommitField(r, op, field, x, y, opts, silent) ==
    /\ heap' = r.heap
    /\ _instances' = r.inst
    /\ last' = FieldCall(op, field, x, y, opts, silent, r.res)

\* field.cast(value, **opts)
FieldCast(field, value, opts) ==
    /\ Ready
    /\ CommitField(cast(field, value, opts, heap, _instances),
                   "cast", field, None, value, opts, TRUE)
    /\ pc' = "returned"
    /\ UNCHANGED <<one, zero>>
    /\ UNCHANGED <<fieldVars, domainVars>>

\* field.validate(value, silent=silent, **opts)
FieldValidate(field, value, silent, opts) ==
    /\ Ready
    /\ CommitField(validate(field, value, silent, opts, heap, _instances),
                   "validate", field, None, value, opts, silent)
    /\ pc' = "returned"
    /\ UNCHANGED <<one, zero>>
    /\ UNCHANGED <<fieldVars, domainVars>>

\* field.is_zero(value, **opts)
FieldIsZero(field, value, opts) ==
    /\ Ready
    /\ CommitField(is_zero(field, value, opts, heap, _instances),
                   "is_zero", field, None, value, opts, TRUE)
    /\ pc' = "returned"
    /\ UNCHANGED <<one, zero>>
    /\ UNCHANGED <<fieldVars, domainVars>>

\* field.is_one(value, **opts)
FieldIsOne(field, value, opts) ==
    /\ Ready
    /\ CommitField(is_one(field, value, opts, heap, _instances),
                   "is_one", field, None, value, opts, TRUE)
    /\ pc' = "returned"
    /\ UNCHANGED <<one, zero>>
    /\ UNCHANGED <<fieldVars, domainVars>>

\* field.cast(value, **opts) == value
FieldCastEquals(field, value, opts) ==
    /\ Ready
    /\ CommitField(EqualsInput(field, cast(field, value, opts, heap, _instances),
                               value),
                   "cast ==", field, None, value, opts, TRUE)
    /\ pc' = "returned"
    /\ UNCHANGED <<one, zero>>
    /\ UNCHANGED <<fieldVars, domainVars>>

\* field.random(lower=lower, upper=upper, **opts)
FieldRandom(field, lower, upper, opts, k, j) ==
    /\ Ready
    /\ CommitField(random(field, lower, upper, opts, k, j, heap, _instances),
                   "random", field, lower, upper, opts, TRUE)
    /\ pc' = "returned"
    /\ UNCHANGED <<one, zero>>
    /\ UNCHANGED <<fieldVars, domainVars>>

\* field.random()
Draw(field, k, j) ==
    random(field, None, None, Defaults, k, j, heap, _instances).res

\* a test of an axiom on the elements a, b and c that field.random() has
\* returned
AxiomTest(axiom, field, a, b, c) ==
    /\ Ready
    /\ last' = FieldCall(axiom, field, None, None, Defaults, TRUE,
                         AxiomRes(axiom, a, b, c,
                                  AxiomSides(axiom, field, a, b, c, heap,
                                             _instances)))
    /\ pc' = "returned"
    /\ UNCHANGED <<heap, _instances, one, zero>>
    /\ UNCHANGED <<fieldVars, domainVars>>

\* the caller is done with the outcome of its call
Return ==
    /\ pc = "returned"
    /\ pc' = "ready"
    /\ last' = NoCall
    /\ UNCHANGED <<heap, _instances, one, zero>>
    /\ UNCHANGED <<fieldVars, domainVars>>

Next ==
    \/ ImportOne
    \/ ImportZero
    \/ Ready /\ \E value \in Values(heap), strict \in BOOLEAN, threshold \in Thresholds :
          CastToGF2(value, strict, threshold)
    \/ Ready /\ \E cls \in Classes, value \in Values(heap), strict \in BOOLEAN,
          threshold \in Thresholds :
          Construct(cls, value, strict, threshold)
    \/ Ready /\ \E value \in Values(heap) : ConstructDefault(value)
    \/ Ready /\ \E cls \in Classes, value \in Values(heap), strict \in BOOLEAN,
          threshold \in Thresholds, keys \in SUBSET DOMAIN _instances :
          ConstructPatched(cls, value, strict, threshold, keys)
    \/ Ready /\ \E op \in Operators, elem \in Elements(heap), other \in Values(heap) :
          Arithmetic(op, elem, other) \/ Arithmetic(op, other, elem)
    \/ Ready /\ \E op \in UnaryOps, self \in 1..Len(heap) : Unary(op, self)
    \/ Ready /\ \E self \in 1..Len(heap) : Hashing(self)
    \/ Ready /\ \E elem \in Elements(heap), other \in Values(heap) :
          Equality(elem, other) \/ Equality(other, elem)
    \/ Ready /\ \E op \in Orderings, elem \in Elements(heap), other \in Values(heap) :
          Comparison(op, elem, other) \/ Comparison(op, other, elem)
    \/ Ready /\ \E field \in Fields, value \in Values(heap), opts \in AllOptions :
          FieldCast(field, value, opts)
    \/ Ready /\ \E field \in Fields, value \in Values(heap), silent \in BOOLEAN,
          opts \in AllOptions :
          FieldValidate(field, value, silent, opts)
    \/ Ready /\ \E field \in Fields, value \in Values(heap), opts \in AllOptions :
          FieldIsZero(field, value, opts)
    \/ Ready /\ \E field \in Fields, value \in Values(heap), opts \in AllOptions :
          FieldIsOne(field, value, opts)
    \/ Ready /\ \E field \in Fields, value \in Values(heap), opts \in AllOptions :
          FieldCastEquals(field, value, opts)
    \/ Ready /\ \E field \in Fields, lower \in BoundValues, upper \in BoundValues,
          opts \in AllOptions, k \in 0..Draws, j \in 0..Draws :
          FieldRandom(field, lower, upper, opts, k, j)
    \/ Ready /\ \E axiom \in Axioms, field \in Fields,
          ka \in 0..Draws, ja \in 0..Draws, kb \in 0..Draws, jb \in 0..Draws,
          kc \in 0..Draws, jc \in 0..Draws :
          AxiomTest(axiom, field, Draw(field, ka, ja), Draw(field, kb, jb),
                    Draw(field, kc, jc))
    \/ Return

Spec == Init /\ [][Next]_vars

TypeOK ==
    /\ pc \in {"import_one", "import_zero", "ready", "returned"}
    /\ one \in 0..MaxObjects
    /\ zero \in 0..MaxObjects

---------------------------------------------------------------------------
(* Properties *)

Imported == pc \in {"ready", "returned"}

\* the value a constructor call resolves its input to: the value of an
\* element handed to its own class, the class's value when no value is
\* given (zero for the base class), otherwise the cast of the input
ResolvedValue(c) ==
    IF c.y.k = "none" THEN (IF c.cls = "GF2One" THEN 1 ELSE 0)
    ELSE IF c.y.k = "elem" /\ (c.cls = "GF2" \/ heap[c.y.ref] = c.cls)
         THEN IntOf(heap, c.y.ref)
    ELSE to_gf2(c.y, c.strict, c.threshold, heap).v

\* C1: once the import has created `one` and `zero`, the heap holds these
\* two objects and the registry maps 1 and 0 to them, whatever calls were
\* made (no call allocates or changes `_instances`); every constructor call
\* on GF2, GF2One or GF2Zero that succeeds returns the registered one of
\* the two objects whose int value is the resolved value of the call.
C1_SingletonConstruction ==
    Imported =>
        /\ Len(heap) = 2
        /\ one # zero /\ {one, zero} = {1, 2}
        /\ IntOf(heap, one) = 1 /\ IntOf(heap, zero) = 0
        /\ DOMAIN _instances = {0, 1}
        /\ _instances[1] = one /\ _instances[0] = zero
        /\ (last.op = "new" /\ last.res.k # "exc") =>
              /\ last.res.k = "obj"
              /\ last.res.v \in {one, zero}
              /\ IntOf(heap, last.res.v) = ResolvedValue(last)
              /\ last.res.v = _instances[ResolvedValue(last)]

\* GF2One(0.0 + tenth of the threshold) has returned `zero`
C1_Witness ==
    /\ pc = "returned"
    /\ last.op = "new" /\ last.cls = "GF2One"
    /\ last.y = Num(Fin(0, 1), Zero0)
    /\ last.res = ObjRes(zero)

Arithmetics == Operators \cup UnaryOps

\* an operand that GF2(...) accepts with its defaults: an element or a
\* native number that is 1-like or 0-like
StrictlyCoercible(v) ==
    \/ v.k = "elem"
    \/ v.k = "num" /\ to_gf2(v, TRUE, THRESHOLD, heap).k = "int"

\* C2: no third GF2 value is reachable: after the import the heap holds
\* exactly the two objects; every arithmetic operation ends in an object or
\* an exception, an object being `one` or `zero`; with strictly coercible
\* operands the only exception is ZeroDivisionError, so re-wrapping the
\* result of the integer operation never fails with ValueError.
C2_NoThirdValue ==
    Imported =>
        /\ Len(heap) = 2
        /\ last.op \in Arithmetics =>
              /\ last.res.k \in {"obj", "exc"}
              /\ last.res.k = "obj" => last.res.v \in {one, zero}
              /\ ~(last.res.k = "exc" /\ last.res.exc = "ValueError"
                     /\ last.res.msg = MsgLike)
              /\ (StrictlyCoercible(last.x) /\ StrictlyCoercible(last.y)
                    /\ last.res.k = "exc")
                 => last.res.exc = "ZeroDivisionError"

\* one + one has returned `zero`
C2_Witness ==
    /\ pc = "returned"
    /\ last.op = "+" /\ last.x = Elem(one) /\ last.y = Elem(one)
    /\ last.res = ObjRes(zero)

---------------------------------------------------------------------------
(* Casting: closeness is restated on (w, e) pairs, without abs and minus *)

\* a < b for two finite numbers
Below(a, b) == a.w < b.w \/ (a.w = b.w /\ a.e < b.e)

\* r is finite and strictly less than t away from the whole number n
Near(r, n, t) ==
    /\ r.k = "fin"
    /\ Below(Fin(n - t.w, -t.e), r)
    /\ Below(r, Fin(n + t.w, t.e))

\* the magnitude of r is greater than t
Exceeds(r, t) ==
    \/ r.k = "inf"
    \/ r.k = "fin" /\ (Below(t, r) \/ Below(r, Fin(-t.w, -t.e)))

CastCall == last.op = "to_gf2"

\* the input of the last call as a complex number
Converted == ToComplex(last.y, heap)

\* the input is a number with an imaginary part below the threshold and a
\* real part that is not NaN
Admissible ==
    /\ Converted.exc = ""
    /\ Near(Converted.im, 0, last.threshold)
    /\ Converted.re.k # "nan"

NearOne == Near(Converted.re, 1, last.threshold)
NearZero == Near(Converted.re, 0, last.threshold)

\* C3 as stated: strict casting returns 1 when the real part is within the
\* threshold of 1, returns 0 when it is within the threshold of 0 and raises
\* ValueError for every other real part.
C3_AsStated ==
    (CastCall /\ last.strict /\ Admissible) =>
        /\ NearOne => last.res = IntRes(1)
        /\ NearZero => last.res = IntRes(0)
        /\ (~NearOne /\ ~NearZero) => last.res = Raise("ValueError", MsgLike)

\* C3: strict casting, the default mode, returns 1 when the real part is
\* strictly less than the threshold away from 1, returns 0 when it is not
\* but is strictly less than the threshold away from 0, and raises
\* ValueError for every other real part.
C3_StrictCasting ==
    /\ DefaultStrict
    /\ (CastCall /\ last.strict /\ Admissible) =>
        /\ NearOne => last.res = IntRes(1)
        /\ (NearZero /\ ~NearOne) => last.res = IntRes(0)
        /\ (~NearOne /\ ~NearZero) => last.res = Raise("ValueError", MsgLike)

\* to_gf2(0, strict=True, threshold=2) has returned 1
C3_Witness ==
    /\ pc = "returned"
    /\ CastCall /\ last.strict
    /\ last.threshold = Fin(BigThreshold, 0)
    /\ last.y = Whole(0)
    /\ last.res = IntRes(1)

\* C4: non-strict casting returns 0 when the magnitude of the real part is
\* below the threshold and 1 for every other real part, however large; it
\* raises nothing.
C4_NonStrictCasting ==
    (CastCall /\ ~last.strict /\ Admissible) =>
        last.res = IntRes(IF NearZero THEN 0 ELSE 1)

\* to_gf2(float("inf"), strict=False) has returned 1
C4_Witness ==
    /\ pc = "returned"
    /\ CastCall /\ ~last.strict
    /\ last.y = Num(Inf(1), Zero0)
    /\ last.res = IntRes(1)

\* the real part alone lets the cast succeed
RealPartFine == ~IsNaN(Converted.re) /\ (~last.strict \/ NearOne \/ NearZero)

---------------------------------------------------------------------------
(* Arithmetic and equality *)

\* the 1 or 0 that a strictly coercible operand stands for
Resolve(v) ==
    IF v.k = "elem" THEN IntOf(heap, v.ref)
    ELSE to_gf2(v, TRUE, THRESHOLD, heap).v

\* the singleton of the value n
Singleton(n) == ObjRes(IF n = 1 THEN one ELSE zero)

BothCoercible == StrictlyCoercible(last.x) /\ StrictlyCoercible(last.y)

\* C6: for elements and native numbers strictly coercible to them, on
\* either side, a + b and a - b are the singleton of (a + b) mod 2 and a * b
\* is the singleton of a * b (so both operations are commutative).
C6_AdditionMultiplication ==
    (last.op \in {"+", "-", "*"} /\ BothCoercible) =>
        last.res = Singleton(IF last.op = "*"
                             THEN Resolve(last.x) * Resolve(last.y)
                             ELSE (Resolve(last.x) + Resolve(last.y)) % 2)

\* 1 - one has returned `zero`
C6_Witness ==
    /\ pc = "returned"
    /\ last.op = "-" /\ last.x = Whole(1) /\ last.y = Elem(one)
    /\ last.res = ObjRes(zero)

\* C7: a / b, a // b and a % b raise ZeroDivisionError whenever the divisor
\* resolves to zero, for both dividends and also with a native number as the
\* dividend; with a divisor that resolves to one, / and // return the
\* dividend and % returns `zero`.
C7_Division ==
    (last.op \in {"/", "//", "%"} /\ BothCoercible) =>
        IF Resolve(last.y) = 0
        THEN last.res = Raise("ZeroDivisionError", MsgDivision)
        ELSE last.res = Singleton(IF last.op = "%" THEN 0
                                  ELSE Resolve(last.x))

\* 1 // zero has raised ZeroDivisionError
C7_Witness ==
    /\ pc = "returned"
    /\ last.op = "//" /\ last.x = Whole(1) /\ last.y = Elem(zero)
    /\ last.res = Raise("ZeroDivisionError", MsgDivision)

\* the operand of the last binary call that is not the deciding element
Other == IF last.x.k = "elem" THEN last.y ELSE last.x

\* None, a tuple, a string that is no number
NonNumeric(v) ==
    \/ v.k \in {"none", "tuple"}
    \/ v.k = "str" /\ ParseComplex(v.s).exc # ""

\* a native number that is neither 1-like nor 0-like
OutOfRange(v) ==
    \/ v.k = "hugeint"
    \/ v.k = "num" /\ to_gf2(v, TRUE, THRESHOLD, heap).k # "int"

\* C8 as stated: in every binary operation with an element on either side,
\* a non-numeric other operand (None, a string, a tuple) results in
\* TypeError and a number that is neither 1-like nor 0-like in ValueError,
\* also where the operation would divide by zero.
C8_AsStated ==
    last.op \in Operators =>
        /\ NonNumeric(Other) => (last.res.k = "exc" /\ last.res.exc = "TypeError")
        /\ OutOfRange(Other) => (last.res.k = "exc" /\ last.res.exc = "ValueError")

\* C9 as stated: equality with an element never raises; it is False for
\* every operand that is not number-like and for every number that is
\* neither 1-like nor 0-like, and True exactly when the operand resolves to
\* the same singleton, with the element on the left or on the right.
C9_AsStated ==
    last.op = "==" =>
        /\ last.res.k = "bool"
        /\ (NonNumeric(Other) \/ OutOfRange(Other)) => last.res = BoolRes(FALSE)
        /\ StrictlyCoercible(Other) =>
              last.res = BoolRes(Resolve(last.x) = Resolve(last.y))

\* the cast of the other operand with the relaxed rules
Relaxed == to_gf2(Other, FALSE, THRESHOLD, heap)

\* the cast of the other operand with the strict rules
Strict == to_gf2(Other, TRUE, THRESHOLD, heap)

\* the element that decides the last comparison
Decider == IF last.x.k = "elem" THEN last.x.ref ELSE last.y.ref

---------------------------------------------------------------------------
(* Ordering *)

\* the outcome of the last call is the exception exc
Raised(exc) == last.res.k = "exc" /\ last.res.exc = exc

\* C11 as stated: zero < one; with elements and strictly coercible operands
\* <, <=, > and >= agree with the order of the resolved integers; a number
\* that is neither 1-like nor 0-like on either side raises ValueError and a
\* non-numeric operand (a string that is no number, a tuple, None) on either
\* side raises TypeError, for all four operators.
C11_AsStated ==
    last.op \in Orderings =>
        /\ StrictlyCoercible(Other) =>
              last.res = BoolRes(CASE last.op = "<" ->
                                        Resolve(last.x) < Resolve(last.y)
                                   [] last.op = "<=" ->
                                        Resolve(last.x) <= Resolve(last.y)
                                   [] last.op = ">" ->
                                        Resolve(last.x) > Resolve(last.y)
                                   [] last.op = ">=" ->
                                        Resolve(last.x) >= Resolve(last.y))
        /\ OutOfRange(Other) => Raised("ValueError")
        /\ NonNumeric(Other) => Raised("TypeError")


---------------------------------------------------------------------------
(* The fields: cast and validate *)

NotElement == Raise("ValueError", MsgNotElement)

\* e is a value of the storage type of the field: a fraction for Q, a float
\* for R, a complex number for C
OfStorageType(field, e) ==
    CASE field = "Q" -> DOMAIN e = {"n", "d", "huge"} /\ e.d >= 1
      [] field = "R" -> DOMAIN e = {"k", "w", "e"}
      [] field = "C" -> DOMAIN e = {"re", "im"}
      [] OTHER -> FALSE

\* the last call returned an element of its field
ReturnedElement ==
    \/ last.cls = "GF2" /\ last.res.k = "obj" /\ last.res.v \in {one, zero}
    \/ last.cls # "GF2" /\ last.res.k = "elem"
          /\ OfStorageType(last.cls, last.res.e)

\* the coercion function of the last call returned a result that the
\* post-cast filter of the field rejects
FilterRejects ==
    /\ _cast_func(last.cls, last.y, last.opts, heap, _instances).res.k = "elem"
    /\ ~_post_cast_filter(last.cls,
           _cast_func(last.cls, last.y, last.opts, heap, _instances).res.e)

\* C13: for each field, every input and all keyword options, cast returns
\* an element of the storage type of the field or raises ValueError with
\* the message that the value is not an element of the field; no other
\* exception escapes; 'abc' and a tuple yield that ValueError, and so does a
\* result that the post-cast filter rejects.
C13_CastErrorUniformity ==
    last.op = "cast" =>
        /\ ReturnedElement \/ last.res = NotElement
        /\ last.y \in {Str("abc"), Tuple} => last.res = NotElement
        /\ FilterRejects => last.res = NotElement

\* R.cast(10**400), whose float() raises OverflowError, has raised the
\* ValueError of cast
C13_Witness ==
    /\ pc = "returned"
    /\ last.op = "cast" /\ last.cls = "R" /\ last.y = HugeInt
    /\ last.opts = Defaults
    /\ last.res = NotElement

\* C14: validate(value, **opts) returns True exactly when cast(value,
\* **opts) succeeds; when cast fails it returns False if silent is true and
\* raises the ValueError of cast if silent is false; with silent=True it
\* never raises.
C14_ValidateWrapsCast ==
    last.op = "validate" =>
        /\ last.res = BoolRes(TRUE) <=>
              cast(last.cls, last.y, last.opts, heap, _instances).res.k # "exc"
        /\ cast(last.cls, last.y, last.opts, heap, _instances).res.k = "exc" =>
              IF last.silent THEN last.res = BoolRes(FALSE)
              ELSE /\ Raised("ValueError")
                   /\ last.res = cast(last.cls, last.y, last.opts, heap,
                                      _instances).res
        /\ last.silent => last.res.k = "bool"

\* Q.validate('abc', silent=False) has raised the ValueError of cast
C14_Witness ==
    /\ pc = "returned"
    /\ last.op = "validate" /\ last.cls = "Q" /\ last.y = Str("abc")
    /\ ~last.silent
    /\ last.res = NotElement

\* NaN, +infinity or -infinity, for C also as the imaginary part or as both
\* parts
NonFinite(field, v) ==
    /\ v.k = "num"
    /\ \/ ~IsFinite(v.re) /\ v.im = Zero0
       \/ field = "C" /\ (~IsFinite(v.re) \/ ~IsFinite(v.im))

\* C16: with default options, casting NaN, +infinity or -infinity into Q,
\* R, C or GF2 raises the ValueError of cast, and validate returns False
\* (raises it when silent is false); for C also when only one part of the
\* number is not finite.
C16_OnlyFiniteElements ==
    (last.op \in {"cast", "validate"} /\ last.opts = Defaults
        /\ NonFinite(last.cls, last.y)) =>
        IF last.op = "cast" \/ ~last.silent THEN last.res = NotElement
        ELSE last.res = BoolRes(FALSE)

\* C.cast(complex(0, nan)) has raised the ValueError of cast
C16_Witness ==
    /\ pc = "returned"
    /\ last.op = "cast" /\ last.cls = "C"
    /\ last.y = Num(Zero0, NaN)
    /\ last.opts = Defaults
    /\ last.res = NotElement


---------------------------------------------------------------------------
(* The fields: is_zero and is_one *)

IdentityCheck == last.op \in {"is_zero", "is_one"}

\* the int that the last call compares its value with
Target == IF last.op = "is_zero" THEN 0 ELSE 1

\* an int or a float
RealNumber(v) == v.k = "num" /\ v.im = Zero0

HalfThreshold == Fin(0, TenthsPerThreshold \div 2)

\* C17 as stated: with default options, on each of the four fields every
\* real value within the threshold of 0 (of 1) satisfies is_zero (is_one);
\* on Q, R and C a finite value farther than the threshold from 0 (from 1)
\* does not.
C17_AsStated ==
    (IdentityCheck /\ last.opts = Defaults /\ RealNumber(last.y)) =>
        /\ Near(last.y.re, Target, THRESHOLD) => last.res = BoolRes(TRUE)
        /\ (last.cls # "GF2" /\ last.y.re.k = "fin"
              /\ Exceeds(Minus(last.y.re, Fin(Target, 0)), THRESHOLD)) =>
              last.res = BoolRes(FALSE)

\* C17: with default options, on R, C and GF2 every real value less than
\* the threshold away from 0 (from 1) satisfies is_zero (is_one), and on R
\* and C no other finite real value does; on Q, which compares exactly
\* after the denominator has been limited, a value less than half the
\* threshold away from 0 (from 1) satisfies is_zero (is_one) and a finite
\* value more than half the threshold away does not.
C17_Tolerance ==
    (IdentityCheck /\ last.opts = Defaults /\ RealNumber(last.y)) =>
        /\ (last.cls # "Q" /\ Near(last.y.re, Target, THRESHOLD)) =>
              last.res = BoolRes(TRUE)
        /\ (last.cls \in {"R", "C"} /\ last.y.re.k = "fin"
              /\ ~Near(last.y.re, Target, THRESHOLD)) =>
              last.res = BoolRes(FALSE)
        /\ (last.cls = "Q" /\ Near(last.y.re, Target, HalfThreshold)) =>
              last.res = BoolRes(TRUE)
        /\ (last.cls = "Q" /\ last.y.re.k = "fin"
              /\ Exceeds(Minus(last.y.re, Fin(Target, 0)), HalfThreshold)) =>
              last.res = BoolRes(FALSE)

\* Q.is_zero of a value just over half the threshold has returned False
C17_Witness ==
    /\ pc = "returned"
    /\ last.op = "is_zero" /\ last.cls = "Q"
    /\ last.y = Num(Fin(0, TenthsPerThreshold \div 2 + 1), Zero0)
    /\ last.opts = Defaults
    /\ last.res = BoolRes(FALSE)

\* C18: GF2.is_zero and GF2.is_one, casting strictly, return the comparison
\* of the cast element with the identity for a real value within the
\* threshold of 0 or of 1, and raise the ValueError of cast for a value that
\* is within the threshold of neither.
C18_GF2IdentityChecks ==
    (IdentityCheck /\ last.cls = "GF2" /\ last.opts.strict
        /\ RealNumber(last.y)) =>
        /\ (Near(last.y.re, 0, last.opts.threshold)
              /\ ~Near(last.y.re, 1, last.opts.threshold)) =>
              last.res = BoolRes(Target = 0)
        /\ (Near(last.y.re, 1, last.opts.threshold)
              /\ ~Near(last.y.re, 0, last.opts.threshold)) =>
              last.res = BoolRes(Target = 1)
        /\ (Near(last.y.re, 0, last.opts.threshold)
              \/ Near(last.y.re, 1, last.opts.threshold)) =>
              last.res.k = "bool"
        /\ (~Near(last.y.re, 0, last.opts.threshold)
              /\ ~Near(last.y.re, 1, last.opts.threshold)) =>
              last.res = NotElement

\* GF2.is_one(1 + 10 * threshold) has raised the ValueError of cast
C18_Witness ==
    /\ pc = "returned"
    /\ last.op = "is_one" /\ last.cls = "GF2"
    /\ last.y = Num(Fin(1, 10 * TenthsPerThreshold), Zero0)
    /\ last.opts = Defaults
    /\ last.res = NotElement


---------------------------------------------------------------------------
(* The fields: cast and the value *)

\* the cast of the value of the last call, with the options of the call
CastOfLast == cast(last.cls, last.y, last.opts, heap, _instances).res

EqualityOfCast == last.op = "cast =="

\* C15 as stated: for every field and every value whose cast succeeds,
\* validate is True and the cast element is equal to the value.
C15_AsStated ==
    (last.op \in {"validate", "cast =="} /\ last.opts = Defaults) =>
        (CastOfLast.k # "exc" => last.res = BoolRes(TRUE))

\* an int, a float or an element of GF2
RealValue(v) == v.k \in {"elem", "hugeint"} \/ (v.k = "num" /\ ~IsComplex(v))

\* the exact value of v is a fraction with a denominator of at most m
HeldBy(v, m) == v.k \in {"elem", "hugeint"} \/ FromFloat(v.re).d <= m

\* C15: for every field, every value and all keyword options with which
\* the cast succeeds, validate is True.  The cast element is equal to the
\* value on GF2 with default options for every number and string; on R
\* and C for every number and every element of GF2, but for no string; on
\* Q for an int, a float and an element of GF2 exactly when the value is a
\* fraction with a denominator of at most max_denominator, and for no
\* string.
C15_CastKeepsValue ==
    (last.op \in {"validate", "cast =="} /\ CastOfLast.k # "exc") =>
        /\ last.op = "validate" => last.res = BoolRes(TRUE)
        /\ (EqualityOfCast /\ last.cls = "GF2" /\ last.opts = Defaults
              /\ last.y.k \in {"num", "str", "elem"}) =>
              last.res = BoolRes(TRUE)
        /\ (EqualityOfCast /\ last.cls \in {"R", "C"}) =>
              last.res = BoolRes(last.y.k \in {"num", "elem"})
        /\ (EqualityOfCast /\ last.cls = "Q") =>
              last.res = BoolRes(RealValue(last.y)
                                 /\ HeldBy(last.y, last.opts.max_denominator))

\* R.cast('1') == '1' has returned False
C15_Witness ==
    /\ pc = "returned"
    /\ last.op = "cast ==" /\ last.cls = "R" /\ last.y = Str("1")
    /\ last.opts = Defaults
    /\ last.res = BoolRes(FALSE)


---------------------------------------------------------------------------
(* The fields: random *)

RandomCall == last.op = "random"

\* the cast bounds of the last call
BoundsOfLast ==
    _get_bounds(last.cls, last.x, last.y,
                IF last.cls = "GF2" THEN last.opts ELSE Defaults, heap,
                _instances)

\* a <= e <= b or b <= e <= a for finite floats
FloatBetween(e, a, b) ==
    \/ ~Less(e, a) /\ ~Less(b, e)
    \/ ~Less(e, b) /\ ~Less(a, e)

FractionBetween(e, a, b) ==
    \/ ~FracLess(e, a) /\ ~FracLess(b, e)
    \/ ~FracLess(e, b) /\ ~FracLess(a, e)

\* the element e lies between the cast bounds l and u, in either order
InRange(field, e, l, u) ==
    CASE field = "Q" -> FractionBetween(e, l.e, u.e)
      [] field = "R" -> FloatBetween(e, l.e, u.e)
      [] field = "C" -> /\ FloatBetween(e.re, l.e.re, u.e.re)
                        /\ FloatBetween(e.im, l.e.im, u.e.im)

\* C19 as stated: whatever the bounds (None standing for an identity) and
\* the rounding options ndigits and max_denominator, an element that random
\* returns lies between the cast bounds, min(l, u) <= e <= max(l, u); for C
\* each part lies between the parts of the bounds; GF2 returns one of its
\* two bounds.
C19_AsStated ==
    (RandomCall /\ last.res.k \in {"elem", "obj"}) =>
        IF last.cls = "GF2"
        THEN last.res.v \in {BoundsOfLast.l.res.v, BoundsOfLast.u.res.v}
        ELSE InRange(last.cls, last.res.e, BoundsOfLast.l.res,
                     BoundsOfLast.u.res)

\* C20: every fraction that Q.cast(value, max_denominator=m) and
\* Q.random(max_denominator=m) return has a denominator of at most m, the
\* default of m being MAX_DENOMINATOR; m is at least 1 when they return.
C20_BoundedDenominators ==
    (last.op \in {"cast", "random"} /\ last.cls = "Q"
        /\ last.res.k = "elem") =>
        /\ last.opts.max_denominator >= 1
        /\ last.res.e.d >= 1
        /\ last.res.e.d <= last.opts.max_denominator
        /\ "max_denominator" \notin last.opts.kwargs =>
              last.res.e.d <= MAX_DENOMINATOR

\* Q.random(lower=6 * THRESHOLD, upper=None, max_denominator=2) has
\* returned 1/2 for a draw from the middle of the interval
C20_Witness ==
    /\ pc = "returned"
    /\ RandomCall /\ last.cls = "Q"
    /\ last.x = Num(Fin(0, 6 * TenthsPerThreshold), Zero0)
    /\ last.y = None
    /\ last.opts.max_denominator = 2
    /\ last.res = ElemRes(Fraction(1, 2))


---------------------------------------------------------------------------
(* The fields: axioms *)

AxiomCall == last.op \in Axioms

\* |x| <= t and |y| <= t and x^2 + y^2 <= t^2, for numbers of offsets
HypotWithin(x, y, t) ==
    IF x > t \/ y > t THEN FALSE ELSE x * x + y * y <= t * t

\* both sides are elements, equal for GF2 and Q and no more than THRESHOLD
\* apart for R and C
Approx(field, left, right) ==
    /\ left.k # "exc" /\ right.k # "exc"
    /\ CASE field = "GF2" -> left.v = right.v
         [] field = "Q" -> left.e = right.e
         [] field = "R" ->
               AbsInt(ToX(left.e) - ToX(right.e)) <= ToX(THRESHOLD)
         [] field = "C" ->
               HypotWithin(AbsInt(ToX(left.e.re) - ToX(right.e.re)),
                           AbsInt(ToX(left.e.im) - ToX(right.e.im)),
                           ToX(THRESHOLD))

\* C12: for all elements a, b and c that random() of a field returns, the
\* two sides of each field axiom are equal on GF2 and Q and within the
\* tolerance on R and C: + and * are associative and commutative,
\* a + zero = a, a * one = a, a + (-a) = zero, a * (b + c) = a * b + a * c,
\* and a * (one / a) = one unless a is zero, when one / a raises
\* ZeroDivisionError.
C12_FieldAxioms ==
    AxiomCall =>
        IF last.op = "multiplicative inverse"
              /\ last.res.a = Identity(last.cls, 0)
        THEN last.res.left.k = "exc"
             /\ last.res.left.exc = "ZeroDivisionError"
        ELSE Approx(last.cls, last.res.left, last.res.right)

\* the test of a * (one / a) on GF2 has drawn zero and one / zero has
\* raised ZeroDivisionError
C12_Witness ==
    /\ pc = "returned"
    /\ last.op = "multiplicative inverse" /\ last.cls = "GF2"
    /\ last.res.a = ObjRes(zero)
    /\ last.res.left = DivisionByZero


---------------------------------------------------------------------------
(* The fields: singletons *)

FieldsSpec == Init /\ [][FieldsNext]_vars

InstancesOf(cls) == {ref \in 1..Len(objects) : objects[ref] = cls}

\* C21: each field class has at most one instance: once the import has
\* bound Q, R, C and GF2, every constructor call of every thread, under any
\* interleaving, returns the object its module-level name is bound to, and
\* no further object is created
C21_FieldSingletons ==
    /\ \A cls \in Fields : Cardinality(InstancesOf(cls)) <= 1
    /\ FieldsImported =>
          /\ Len(objects) = Cardinality(Fields)
          /\ \A cls \in Fields : InstancesOf(cls) = {names[cls]}
    /\ \A t \in Clients :
          threads[t].pc = "done" => threads[t].ret = names[threads[t].cls]

\* two threads have been given the same field at the same time
C21_Witness ==
    /\ FieldsImported
    /\ \E t \in Clients, u \in Clients :
          /\ t # u
          /\ threads[t].pc = "done" /\ threads[u].pc = "done"
          /\ threads[t].cls = threads[u].cls
          /\ threads[t].ret = threads[u].ret
          /\ threads[t].ret = names[threads[t].cls]


---------------------------------------------------------------------------
(* Errors: what becomes of a TypeError *)

ElementCalls == {"new", "to_gf2"}

BinaryCalls == Operators \cup Orderings \cup {"=="}

FieldCalls == {"cast", "validate", "is_zero", "is_one", "random"}

\* the options that the last call on a field hands to the coercion function
CastOptions ==
    IF \/ last.op \in {"is_zero", "is_one"} /\ last.cls \in {"R", "C"}
       \/ last.op = "random" /\ last.cls # "GF2"
    THEN Defaults
    ELSE last.opts

\* the coercion function of the field of the last call raises TypeError for
\* the value, which is not number-like (random takes None as no bound)
TypeErrorInside(value) ==
    /\ NonNumeric(value)
    /\ ~(last.op = "random" /\ value = None)
    /\ _cast_func(last.cls, value, CastOptions, heap, _instances).res.k = "exc"
    /\ _cast_func(last.cls, value, CastOptions, heap, _instances).res.exc
          = "TypeError"

\* the first input of the last call on a field that is cast
CastInput == IF last.op = "random" THEN last.x ELSE last.y

\* C22 as stated: a TypeError caused by an input that is not number-like is
\* never recovered or converted: element construction, to_gf2, arithmetic,
\* comparison, cast, validate, is_zero, is_one and random all end in
\* TypeError.
C22_AsStated ==
    /\ (last.op \in ElementCalls /\ NonNumeric(last.y)) => Raised("TypeError")
    /\ (last.op \in BinaryCalls /\ NonNumeric(Other)) => Raised("TypeError")
    /\ (last.op \in FieldCalls /\ TypeErrorInside(CastInput)) =>
          Raised("TypeError")

\* C22: what becomes of the TypeError of an input that is not number-like:
\* to_gf2 and the element constructors raise it (a constructor takes None as
\* no value and raises nothing), arithmetic and ordering with an operand
\* other than None raise TypeError, == swallows it and returns False, and
\* the fields convert it: cast, is_zero, is_one and random raise the
\* ValueError of cast, validate returns False or raises that ValueError.
C22_TypeErrorHandling ==
    /\ (last.op = "to_gf2" /\ NonNumeric(last.y)) => Raised("TypeError")
    /\ (last.op = "new" /\ NonNumeric(last.y)) =>
          IF last.y = None THEN last.res.k = "obj" ELSE Raised("TypeError")
    /\ (last.op \in Operators \cup Orderings /\ NonNumeric(Other)
          /\ Other # None) => Raised("TypeError")
    /\ (last.op = "==" /\ NonNumeric(Other) /\ Other # None) =>
          last.res = BoolRes(FALSE)
    /\ (last.op \in {"cast", "is_zero", "is_one", "random"}
          /\ TypeErrorInside(CastInput)) => last.res = NotElement
    /\ (last.op = "validate" /\ TypeErrorInside(CastInput)) =>
          last.res = (IF last.silent THEN BoolRes(FALSE) ELSE NotElement)

\* R.cast(()) has raised ValueError although float(()) raises TypeError
C22_Witness ==
    /\ pc = "returned"
    /\ last.op = "cast" /\ last.cls = "R" /\ last.y = Tuple
    /\ last.opts = Defaults
    /\ TypeErrorInside(last.y)
    /\ last.res = NotElement


---------------------------------------------------------------------------
(* Hashing *)

\* the native number v is exactly the whole number n
Exactly(v, n) == v.k = "num" /\ v.im = Zero0 /\ v.re = Fin(n, 0)

\* the last call compared an element with a native number and found them
\* equal
EqualToNumber ==
    last.op = "==" /\ Other.k = "num" /\ last.res = BoolRes(TRUE)

\* C23 as stated: hash(one) is 1 and hash(zero) is 0, and for every native
\* number n with element == n the hashes agree: hash(element) == hash(n).
C23_AsStated ==
    /\ last.op = "hash" =>
          last.res = IntRes(IF last.x = Elem(one) THEN 1 ELSE 0)
    /\ EqualToNumber => HashOf(Other) = __hash__(Decider, heap)

\* C23: hash(one) is 1 and hash(zero) is 0; a native number n with
\* element == n has the hash of the element if n is exactly 1 or 0, and
\* another hash if n is only within the threshold of 1 or 0.
C23_HashOfValue ==
    /\ last.op = "hash" =>
          last.res = IntRes(IF last.x = Elem(one) THEN 1 ELSE 0)
    /\ EqualToNumber =>
          IF Exactly(Other, 1) \/ Exactly(Other, 0)
          THEN HashOf(Other) = __hash__(Decider, heap)
          ELSE HashOf(Other) # __hash__(Decider, heap)

\* one == 1 + 1e-13 has returned True, and hash(1 + 1e-13) is not hash(one)
C23_Witness ==
    /\ pc = "returned"
    /\ EqualToNumber
    /\ last.x = Elem(one) /\ last.y = Num(Fin(1, 1), Zero0)
    /\ __hash__(one, heap) = IntRes(1)
    /\ HashOf(last.y) # IntRes(1)


---------------------------------------------------------------------------
(* Construction without a value, and the internal error *)

\* the last call was a constructor call within a test that had replaced
\* the registry
PatchedCall == last.op = "new, patched"

\* C24: after the import GF2One() is `one`, GF2Zero() is `zero` and GF2()
\* is `zero`, for either strict and every threshold, and no call of the
\* clients raises RuntimeError; RuntimeError, with the message of the
\* internal error, is raised exactly when the base class is constructed
\* without a value while the registry, replaced by a test, holds no zero.
C24_DefaultInstances ==
    /\ (last.op = "new" /\ last.y = None) =>
          last.res = ObjRes(IF last.cls = "GF2One" THEN one ELSE zero)
    /\ Raised("RuntimeError") <=>
          /\ PatchedCall
          /\ last.cls = "GF2" /\ last.y = None
          /\ 0 \notin DOMAIN last.x
    /\ Raised("RuntimeError") => last.res.msg = MsgInternal

\* GF2(strict=False) has returned `zero`
C24_Witness ==
    /\ pc = "returned"
    /\ last.op = "new" /\ last.cls = "GF2" /\ last.y = None
    /\ ~last.strict
    /\ last.res = ObjRes(zero)


---------------------------------------------------------------------------
(* Domains *)

DomainsSpec == Init /\ [][DomainsNext]_vars


\* the last call of Domain(...) has made a new object
Built ==
    /\ made.res = ObjRes(made.before + 1)
    /\ Len(domains) = made.before + 1

\* the labels of the Domain that the last call has returned
Labels == domains[made.res.v].labels

\* the elements of the argument of the last call
Given == {made.labels.items[i] : i \in DOMAIN made.labels.items}

\* C25: Domain(n) for a positive int n is the domain of the labels 0 to
\* n - 1, which is canonical; Domain(mapping) holds the keys of the mapping;
\* Domain(iterable), an iterator or a generator included, holds the
\* elements of the iterable without duplicates (for hashable elements, at
\* least one); Domain(d) for a Domain d returns d itself and makes no
\* object.
C25_DomainConstruction ==
    made.op = "Domain" =>
        /\ (made.labels.k = "int" /\ made.labels.n > 0) =>
              /\ Built
              /\ Labels = {IntLabel(i) : i \in 0..(made.labels.n - 1)}
              /\ IsCanonical(Labels)
        /\ (made.labels.k \in Sized \cup Iterators /\ Given # {}
              /\ \A label \in Given : Hashable(label)) =>
              /\ Built
              /\ Labels = Given
        /\ made.labels.k = "domain" =>
              /\ made.res = ObjRes(made.labels.ref)
              /\ Len(domains) = made.before

\* Domain(generator) for a generator that yields 0 twice has returned the
\* domain of the one label 0
C25_Witness ==
    /\ made.op = "Domain"
    /\ made.labels = IterableArg("generator", <<IntLabel(0), IntLabel(0)>>)
    /\ Built
    /\ Labels = {IntLabel(0)}

\* the argument of the last call is empty: a container or an iterator
\* without elements, or an int that is not positive
EmptyInput ==
    \/ made.labels.k \in Sized \cup Iterators /\ Given = {}
    \/ made.labels.k = "int" /\ made.labels.n <= 0

DomainRaised(exc) == made.res.k = "exc" /\ made.res.exc = exc

\* C26 as stated: every Domain holds at least one label: the construction
\* from an empty list, tuple, set, string or mapping, from an iterator or a
\* generator that yields nothing and from an int n <= 0 raises ValueError.
C26_AsStated ==
    /\ \A d \in 1..Len(domains) : domains[d].labels # {}
    /\ (made.op = "Domain" /\ EmptyInput) => DomainRaised("ValueError")

\* the argument of the last call is neither iterable nor an integer:
\* object(), None, a float that is no whole number
NoInteger ==
    \/ made.labels.k \in {"none", "object"}
    \/ made.labels.k = "float"
          /\ (made.labels.f.k # "fin" \/ made.labels.f.e # 0)

\* C27 as stated: the construction of a Domain raises TypeError for an
\* element that is not hashable and for a scalar that is neither iterable
\* nor an integer, ValueError for an empty input and for an int that is not
\* positive, and no exception of any other kind.
C27_AsStated ==
    made.op = "Domain" =>
        /\ made.res.k = "exc" => made.res.exc \in {"TypeError", "ValueError"}
        /\ (\E label \in Given : ~Hashable(label)) => DomainRaised("TypeError")
        /\ NoInteger => DomainRaised("TypeError")
        /\ EmptyInput => DomainRaised("ValueError")

\* C29: every read of d.is_canonical returns True exactly when the labels
\* of d are 0 to len(d) - 1; the first reads compute the boolean and store
\* it, also when several threads race and each computes it, and no read
\* ever returns or stores another boolean.
C29_CanonicalCached ==
    /\ \A d \in 1..Len(domains) :
          domains[d]._is_canonical \in
              {<<>>, <<domains[d].labels
                        = {IntLabel(i) :
                             i \in 0..(Cardinality(domains[d].labels) - 1)}>>}
    /\ \A t \in 1..Readers :
          readers[t].pc \in {"return", "done"} =>
              /\ domains[readers[t].d]._is_canonical = <<readers[t].cached>>
              /\ readers[t].pc = "done" => readers[t].ret = readers[t].cached

\* one thread has been given False for a domain that is not canonical while
\* another thread, which has computed the boolean too, is about to store it
C29_Witness ==
    \E t \in 1..Readers, u \in 1..Readers :
        /\ t # u
        /\ readers[t].d = readers[u].d
        /\ readers[t].pc = "done" /\ readers[u].pc = "store"
        /\ ~readers[t].ret /\ ~readers[u].cached
        /\ domains[readers[t].d]._is_canonical = <<FALSE>>


---------------------------------------------------------------------------
(* The default of strict *)

\* the last call was gf2(value) with nothing but the value
DefaultCall == last.op = "gf2"

FortyTwos == {Whole(Big), Whole(-Big)}

---------------------------------------------------------------------------
(* The relaxed cast and the strict cast *)

\* the strict cast of the value of the last call, with its threshold
StrictCast == to_gf2(last.y, TRUE, last.threshold, heap)

\* the last call was to_gf2(value, strict=False, threshold=t) for a value
\* that to_gf2(value, strict=True, threshold=t) accepts
RelaxedCall == last.op = "to_gf2" /\ ~last.strict /\ StrictCast.k = "int"

\* t <= 1/2
AtMostHalf(t) == ~Less(Fin(1, 0), Fin(t.w + t.w, t.e + t.e))

\* C30 as stated: for every value and every threshold t > 0, if
\* to_gf2(value, strict=True, threshold=t) returns r, then
\* to_gf2(value, strict=False, threshold=t) returns r as well.
C30_AsStated == RelaxedCall => last.res = StrictCast

\* C30: for every value and every threshold 0 < t <= 1/2, if the strict
\* cast returns r, the relaxed cast returns r as well; a threshold above
\* 1/2 brings values that are 1-like for the strict cast below the threshold
\* of the relaxed cast, which gives 0 for them.
C30_RelaxedExtendsStrict ==
    RelaxedCall =>
        /\ AtMostHalf(last.threshold) => last.res = StrictCast
        /\ last.res # StrictCast =>
              /\ StrictCast = IntRes(1) /\ last.res = IntRes(0)
              /\ ZeroLike(last.y.re, last.threshold)

\* to_gf2(1 + 1e-13, strict=False) has returned 1, as the strict cast does
C30_Witness ==
    /\ pc = "returned"
    /\ RelaxedCall
    /\ last.y = Num(Fin(1, 1), Zero0) /\ last.threshold = THRESHOLD
    /\ StrictCast = IntRes(1)
    /\ last.res = IntRes(1)

====
